---- MODULE Spec2Model ----
(***************************************************************************)
(* Model of OFM-ExternalFlash: the filesystem adapter ext_LittleFSImpl     *)
(* (src/src/ext_LittleFS.h, src/src/ext_littleFS.cpp) and the W25Q128      *)
(* flash block-device driver (src/src/W25Q128.cpp, src/src/W25Q128.h).     *)
(*                                                                         *)
(* The littlefs library is an external collaborator: each call the adapter *)
(* makes to it is recorded in `calls` together with the return code the    *)
(* library answered, and the return code is drawn from the codes that call *)
(* can answer.  The adapter's control flow is translated from the source.  *)
(*                                                                         *)
(* Spec and SpecFlash draw the library's and the chip's answers freely.    *)
(* SpecFile and SpecDir run the adapter, its file objects and its          *)
(* directory objects on a library that answers as a working filesystem,    *)
(* kept in `fs`.                                                           *)
(***************************************************************************)
EXTENDS Integers, Sequences, FiniteSets, TLC

VARIABLES
    mounted,        \* ext_LittleFSImpl::_mounted
    autoFormat,     \* ext_LittleFSImpl::_cfg._autoFormat
    timeCallback,   \* FSImpl::_timeCallback != nullptr
    fsSize,         \* ext_LittleFSImpl::_size
    ExternalFlash_mounted,  \* ExternalFlash::_mounted
    extFlashLfs,    \* ExternalFlash::_extFlashLfs: the adapter it points to ("null": none)
    op,             \* the adapter/driver operation that has just returned ("idle": none)
    args,           \* its arguments
    pre,            \* _mounted when it was called
    ret,            \* its boolean result (a returned pointer: non-null)
    obj,            \* the object or structure it returned
    calls,          \* the littlefs calls it made, in order
    cmds,           \* the chip commands a driver operation issued, in order
    chip,           \* the flash chip: memory, write-enable latch, chip-select, busy time left
    run,            \* the driver call in progress, followed poll by poll ("none": none)
    fs,             \* what the littlefs library keeps on the chip: the tree and its attributes
    file,           \* the ext_LittleFSFileImpl object the caller holds ("none": none)
    dir,            \* the ext_LittleFSDirImpl object the caller holds ("none": none)
    was             \* fs, file and dir when the operation was called

vars == <<mounted, autoFormat, timeCallback, fsSize, ExternalFlash_mounted, extFlashLfs, op, args, pre, ret,
          obj, calls, cmds,
          chip, run, fs, file, dir, was>>

flashVars == <<chip, run>>

fsVars == <<fs, file, dir, was>>

adapterCfg == <<autoFormat, timeCallback, fsSize, ExternalFlash_mounted, extFlashLfs>>

-----------------------------------------------------------------------------
(* Program constants *)

FLASH_SIZE_W25Q128 == 16777216
SECTOR_SIZE_W25Q128_4KB == 4096
PAGE_SIZE_W25Q128_256B == 256
LFS_NAME_MAX == 255
pageSize == 256
CMD_WRITE_ENABLE == 6
CMD_PAGE_PROGRAM == 2
CMD_READ_STATUS_REG == 5
CMD_READ_ID == 159
CMD_WRITE_DISABLE == 4
CMD_READ_DATA == 3
CMD_SECTOR_ERASE == 32
CMD_CHIP_ERASE == 199

\* the value of an erased byte of the chip
ERASED == 255

(* Bounds of the model *)

MaxTime == 2        \* the time source answers 1..MaxTime
MaxExtra == 1       \* path segments of up to LFS_NAME_MAX + MaxExtra characters
MaxFileSize == 1    \* lfs_stat answers sizes 0..MaxFileSize
MaxUsedBlocks == 1  \* lfs_fs_size answers 0..MaxUsedBlocks
MaxPages == 2       \* program() is called with up to MaxPages pages and one byte
MaxBusy == 1        \* the chip answers busy to up to MaxBusy status reads per command
MaxBytes == 6       \* the bytes the files of the filesystem hold together

Times == 1..MaxTime

-----------------------------------------------------------------------------
(* The littlefs library: return codes and the record of a call *)

LFS_ERR_OK == "LFS_ERR_OK"
LFS_ERR_IO == "LFS_ERR_IO"
LFS_ERR_ISDIR == "LFS_ERR_ISDIR"
LFS_ERR_NOATTR == "LFS_ERR_NOATTR"

LFS_ERR_NOENT == "LFS_ERR_NOENT"
LFS_ERR_EXIST == "LFS_ERR_EXIST"
LFS_ERR_NOTDIR == "LFS_ERR_NOTDIR"
LFS_ERR_NOTEMPTY == "LFS_ERR_NOTEMPTY"
LFS_ERR_INVAL == "LFS_ERR_INVAL"
LFS_ERR_BADF == "LFS_ERR_BADF"
LFS_ERR_NOSPC == "LFS_ERR_NOSPC"
LFS_ERR_CORRUPT == "LFS_ERR_CORRUPT"

Outcome == {"ok", "alt", "err"}

\* The code a library function answers for an outcome.
RcOf(fn, o) ==
    IF o = "ok" THEN LFS_ERR_OK
    ELSE IF fn = "lfs_getattr" THEN (IF o = "alt" THEN LFS_ERR_OK ELSE LFS_ERR_NOATTR)
    ELSE IF fn = "lfs_file_open" /\ o = "alt" THEN LFS_ERR_ISDIR
    ELSE LFS_ERR_IO

\* The size lfs_getattr answers: 8 (canonical blob), 4 (legacy blob); 0 otherwise.
SizeOf(fn, o) ==
    IF fn = "lfs_getattr" THEN (IF o = "ok" THEN 8 ELSE IF o = "alt" THEN 4 ELSE 0)
    ELSE 0

NoPath == <<>>
NoObj == [kind |-> "none"]
NoRun == [pc |-> "none"]

Oracles(n) == [1..n -> Outcome]

-----------------------------------------------------------------------------
(* The littlefs library as a working filesystem.  A node of the tree is     *)
(* named by the segments of its path; it has a type and the attributes 'c'  *)
(* and 't' (0: the attribute is not there); a file has its bytes (d).       *)

\* the segments of a path: what lies between its slashes, empty segments dropped
RECURSIVE Segs(_, _)
Segs(p, cur) ==
    IF p = <<>> THEN (IF cur = <<>> THEN <<>> ELSE <<cur>>)
    ELSE IF Head(p) = "/"
    THEN (IF cur = <<>> THEN Segs(Tail(p), <<>>) ELSE <<cur>> \o Segs(Tail(p), <<>>))
    ELSE Segs(Tail(p), Append(cur, Head(p)))

Key(path) == Segs(path, <<>>)

Root == <<>>
Parent(k) == SubSeq(k, 1, Len(k) - 1)

DirNode == [type |-> "LFS_TYPE_DIR", c |-> 0, t |-> 0, d |-> <<>>]
RegNode == [type |-> "LFS_TYPE_REG", c |-> 0, t |-> 0, d |-> <<>>]

Unformatted == [k \in {} |-> DirNode]
Formatted == [k \in {Root} |-> DirNode]

IsDir(f, k) == k \in DOMAIN f /\ f[k].type = "LFS_TYPE_DIR"
IsReg(f, k) == k \in DOMAIN f /\ f[k].type = "LFS_TYPE_REG"
Children(f, k) == {j \in DOMAIN f : Len(j) = Len(k) + 1 /\ Parent(j) = k}
Put(f, k, node) == [j \in DOMAIN f \cup {k} |-> IF j = k THEN node ELSE f[j]]
Drop(f, k) == [j \in DOMAIN f \ {k} |-> f[j]]

\* the names of the model, in the order a directory lists them
NameOrder == <<<<"a">>, <<"b">>, <<"c">>, <<"d">>>>

Dot == <<".">>
DotDot == <<".", ".">>

InfoOf(f, k, name) == [type |-> f[k].type, size |-> Len(f[k].d), name |-> name]
NoInfo == [type |-> "LFS_TYPE_REG", size |-> 0, name |-> <<>>]

\* what lfs_dir_read answers, entry after entry, for directory k
Listing(f, k) ==
    LET here == SelectSeq(NameOrder, LAMBDA n : Append(k, n) \in DOMAIN f)
    IN <<[type |-> "LFS_TYPE_DIR", size |-> 0, name |-> Dot],
         [type |-> "LFS_TYPE_DIR", size |-> 0, name |-> DotDot]>>
       \o [i \in 1..Len(here) |-> InfoOf(f, Append(k, here[i]), here[i])]

NoDirHandle == [key |-> Root, pos |-> 0]

\* The lfs_file_t of an open file: the bytes of the file as the handle sees them, its
\* position, its flags, and whether the bytes are still to be written to the tree.
\* LFS_O_TRUNC empties the file, in the tree too (the adapter syncs the handle right
\* after lfs_file_open); what is written shows in the tree when the handle is closed.
FileHandle(f, k, flags) ==
    [data |-> IF IsReg(f, k) /\ ~("LFS_O_TRUNC" \in flags /\ "LFS_O_WRONLY" \in flags)
              THEN f[k].d ELSE <<>>,
     pos |-> 0,
     flags |-> flags,
     dirty |-> FALSE]

\* the bytes all files but k take in the tree
RECURSIVE UsedBut(_, _, _)
UsedBut(f, k, keys) ==
    IF keys = {} THEN 0
    ELSE LET j == CHOOSE x \in keys : TRUE
         IN (IF j = k THEN 0 ELSE Len(f[j].d)) + UsedBut(f, k, keys \ {j})

\* lfs_file_write: the bytes go in at the position (at the end with LFS_O_APPEND),
\* after zeros when the position is beyond the end;
\* LFS_ERR_BADF on a handle that is not open for writing, LFS_ERR_NOSPC when the
\* chip has no room for them
LibFileWrite(f, k, h, buf) ==
    LET at == IF "LFS_O_APPEND" \in h.flags THEN Len(h.data) ELSE h.pos
        end == at + Len(buf)
        len == IF end > Len(h.data) THEN end ELSE Len(h.data)
        data == [i \in 1..len |-> IF i > at /\ i <= end THEN buf[i - at]
                                   ELSE IF i <= Len(h.data) THEN h.data[i]
                                   ELSE 0]
    IN IF "LFS_O_WRONLY" \notin h.flags THEN [rc |-> LFS_ERR_BADF, n |-> 0, h |-> h]
       ELSE IF UsedBut(f, k, DOMAIN f) + len > MaxBytes
       THEN [rc |-> LFS_ERR_NOSPC, n |-> 0, h |-> h]
       ELSE [rc |-> LFS_ERR_OK, n |-> Len(buf),
             h |-> [h EXCEPT !.data = data, !.pos = end, !.dirty = TRUE]]

\* lfs_file_read: up to size bytes from the position on
LibFileRead(h, size) ==
    LET left == IF h.pos < Len(h.data) THEN Len(h.data) - h.pos ELSE 0
        n == IF size < left THEN size ELSE left
    IN IF "LFS_O_RDONLY" \notin h.flags
       THEN [rc |-> LFS_ERR_BADF, n |-> 0, buf |-> <<>>, h |-> h]
       ELSE [rc |-> LFS_ERR_OK, n |-> n, buf |-> SubSeq(h.data, h.pos + 1, h.pos + n),
             h |-> [h EXCEPT !.pos = @ + n]]

\* lfs_file_seek: the new position counts from the start, from the position or from
\* the end; LFS_ERR_INVAL, and no move, when it would lie before the start.  A
\* position beyond the end is accepted.
LibFileSeek(h, off, whence) ==
    LET npos == IF whence = "SeekSet" THEN off
                ELSE IF whence = "SeekCur" THEN h.pos + off
                ELSE Len(h.data) + off
    IN IF npos < 0 THEN [rc |-> LFS_ERR_INVAL, n |-> 0, h |-> h]
       ELSE [rc |-> LFS_ERR_OK, n |-> npos, h |-> [h EXCEPT !.pos = npos]]

\* lfs_file_truncate: the file is cut, or filled up with zeros, to the size; the
\* position stays where it is, also when that is beyond the new end
LibFileTruncate(f, k, h, size) ==
    IF "LFS_O_WRONLY" \notin h.flags THEN [rc |-> LFS_ERR_BADF, n |-> 0, h |-> h]
    ELSE IF UsedBut(f, k, DOMAIN f) + size > MaxBytes
    THEN [rc |-> LFS_ERR_NOSPC, n |-> 0, h |-> h]
    ELSE [rc |-> LFS_ERR_OK, n |-> 0,
          h |-> [h EXCEPT !.data = [i \in 1..size |-> IF i <= Len(h.data) THEN h.data[i]
                                                      ELSE 0],
                          !.dirty = TRUE]]

\* The answer of a working library to one call, and what the call leaves behind: f is
\* the filesystem, dirh the open lfs_dir_t; val is the value lfs_setattr stores, the flags
\* of lfs_file_open, the lfs_file_t of lfs_file_close (attr "lfs_file_t"; the close of
\* a handle nothing was written to comes without).  lfs_dir_read answers 1 for an
\* entry, 0 at the end (n).
LibAnswer(f, dirh, fn, k, attr, val) ==
    IF fn = "lfs_format"
    THEN [rc |-> LFS_ERR_OK, n |-> 0, fs |-> Formatted, dirh |-> dirh, info |-> NoInfo]
    ELSE IF fn = "lfs_mount"
    THEN [rc |-> IF f = Unformatted THEN LFS_ERR_CORRUPT ELSE LFS_ERR_OK, n |-> 0,
          fs |-> f, dirh |-> dirh, info |-> NoInfo]
    ELSE IF fn = "lfs_stat"
    THEN [rc |-> IF k \in DOMAIN f THEN LFS_ERR_OK ELSE LFS_ERR_NOENT, n |-> 0, fs |-> f,
          dirh |-> dirh,
          info |-> IF k \notin DOMAIN f THEN NoInfo
                   ELSE InfoOf(f, k, IF k = Root THEN <<"/">> ELSE k[Len(k)])]
    ELSE IF fn = "lfs_mkdir"
    THEN [rc |-> IF k \in DOMAIN f THEN LFS_ERR_EXIST
                 ELSE IF ~IsDir(f, Parent(k)) THEN LFS_ERR_NOENT ELSE LFS_ERR_OK,
          n |-> 0,
          fs |-> IF k \notin DOMAIN f /\ IsDir(f, Parent(k)) THEN Put(f, k, DirNode) ELSE f,
          dirh |-> dirh, info |-> NoInfo]
    ELSE IF fn = "lfs_remove"
    THEN [rc |-> IF k = Root THEN LFS_ERR_INVAL
                 ELSE IF k \notin DOMAIN f THEN LFS_ERR_NOENT
                 ELSE IF Children(f, k) # {} THEN LFS_ERR_NOTEMPTY ELSE LFS_ERR_OK,
          n |-> 0,
          fs |-> IF k # Root /\ k \in DOMAIN f /\ Children(f, k) = {} THEN Drop(f, k)
                 ELSE f,
          dirh |-> dirh, info |-> NoInfo]
    ELSE IF fn = "lfs_file_open"
    THEN [rc |-> IF IsDir(f, k) THEN LFS_ERR_ISDIR
                 ELSE IF IsReg(f, k) THEN LFS_ERR_OK
                 ELSE IF "LFS_O_CREAT" \in val /\ IsDir(f, Parent(k)) THEN LFS_ERR_OK
                 ELSE LFS_ERR_NOENT,
          n |-> 0,
          fs |-> IF k \notin DOMAIN f /\ "LFS_O_CREAT" \in val /\ IsDir(f, Parent(k))
                 THEN Put(f, k, RegNode)
                 ELSE IF IsReg(f, k) /\ "LFS_O_TRUNC" \in val /\ "LFS_O_WRONLY" \in val
                 THEN [f EXCEPT ![k].d = <<>>]
                 ELSE f,
          dirh |-> dirh, info |-> NoInfo]
    ELSE IF fn \in {"lfs_file_close", "lfs_file_sync"} /\ attr = "lfs_file_t"
    THEN [rc |-> LFS_ERR_OK, n |-> 0,
          fs |-> IF val.dirty /\ IsReg(f, k) THEN [f EXCEPT ![k].d = val.data] ELSE f,
          dirh |-> dirh, info |-> NoInfo]
    ELSE IF fn = "lfs_setattr"
    THEN [rc |-> IF k \in DOMAIN f THEN LFS_ERR_OK ELSE LFS_ERR_NOENT, n |-> 0,
          fs |-> IF k \notin DOMAIN f THEN f
                 ELSE IF attr = "c" THEN [f EXCEPT ![k].c = val]
                 ELSE [f EXCEPT ![k].t = val],
          dirh |-> dirh, info |-> NoInfo]
    ELSE IF fn = "lfs_getattr"
    THEN [rc |-> IF k \in DOMAIN f /\ f[k][attr] # 0 THEN LFS_ERR_OK ELSE LFS_ERR_NOATTR,
          n |-> IF k \in DOMAIN f /\ f[k][attr] # 0 THEN 8 ELSE 0,
          fs |-> f, dirh |-> dirh, info |-> NoInfo]
    ELSE IF fn = "lfs_dir_open"
    THEN [rc |-> IF IsDir(f, k) THEN LFS_ERR_OK
                 ELSE IF IsReg(f, k) THEN LFS_ERR_NOTDIR ELSE LFS_ERR_NOENT,
          n |-> 0, fs |-> f,
          dirh |-> IF IsDir(f, k) THEN [key |-> k, pos |-> 0] ELSE dirh, info |-> NoInfo]
    ELSE IF fn = "lfs_dir_rewind"
    THEN [rc |-> LFS_ERR_OK, n |-> 0, fs |-> f, dirh |-> [dirh EXCEPT !.pos = 0],
          info |-> NoInfo]
    ELSE IF fn = "lfs_dir_read"
    THEN IF dirh.pos < Len(Listing(f, dirh.key))
         THEN [rc |-> LFS_ERR_OK, n |-> 1, fs |-> f,
               dirh |-> [dirh EXCEPT !.pos = @ + 1],
               info |-> Listing(f, dirh.key)[dirh.pos + 1]]
         ELSE [rc |-> LFS_ERR_OK, n |-> 0, fs |-> f, dirh |-> dirh, info |-> NoInfo]
    ELSE [rc |-> LFS_ERR_OK, n |-> 0, fs |-> f, dirh |-> dirh, info |-> NoInfo]

\* The state threaded through one adapter operation.  stale: the library, called on
\* handles while it is not mounted, answers with an error and does nothing (it may as
\* well act on what its memory still holds: what it does then is not defined).
Ctx(o) ==
    [mounted |-> mounted, calls |-> <<>>, oracle |-> o, rc |-> LFS_ERR_OK, n |-> 0,
     ret |-> FALSE, in |-> "", obj |-> NoObj, fs |-> fs, stale |-> FALSE,
     dirh |-> IF dir.kind = "dir" THEN dir.h ELSE NoDirHandle, info |-> NoInfo,
     file |-> file, dir |-> dir]

\* A library call whose answer the library decides.
LfsCall(c, fn, path, attr, val) ==
    LET o == Head(c.oracle)
    IN [c EXCEPT !.calls = Append(@, [fn |-> fn, by |-> c.in, path |-> path, attr |-> attr,
                                      val |-> val, rc |-> RcOf(fn, o), n |-> SizeOf(fn, o)]),
                 !.oracle = Tail(@),
                 !.rc = RcOf(fn, o),
                 !.n = SizeOf(fn, o)]

\* A library call whose answer the adapter does not look at.
LfsVoid(c, fn, path) ==
    [c EXCEPT !.calls = Append(@, [fn |-> fn, by |-> c.in, path |-> path, attr |-> "",
                                   val |-> 0, rc |-> LFS_ERR_OK, n |-> 0])]

\* A library call that a working library answers.
Answered(c, fn, path, attr, val, r) ==
    [c EXCEPT !.calls = Append(@, [fn |-> fn, by |-> c.in, path |-> path, attr |-> attr,
                                   val |-> val, rc |-> r.rc, n |-> r.n]),
              !.rc = r.rc,
              !.n = r.n,
              !.fs = r.fs,
              !.dirh = r.dirh,
              !.info = r.info]

LibCall(c, fn, path, attr, val) ==
    IF c.stale
    THEN Answered(c, fn, path, attr, val,
                  [rc |-> LFS_ERR_IO, n |-> 0, fs |-> c.fs, dirh |-> c.dirh, info |-> NoInfo])
    ELSE Answered(c, fn, path, attr, val,
                  LibAnswer(c.fs, c.dirh, fn, Key(path), attr, val))

\* the calls whose answer the adapter never looks at
VoidCalls == {"lfs_unmount", "lfs_file_close", "lfs_file_sync", "lfs_fs_size", "lfs_dir_read"}

\* the outcome that stands for an answer of the working library
OutcomeOf(fn, r) ==
    IF r.rc = LFS_ERR_OK THEN "ok"
    ELSE IF fn = "lfs_file_open" /\ r.rc = LFS_ERR_ISDIR THEN "alt"
    ELSE "err"

\* The calls of one operation, from the i-th on, put to a working library: st.fs and
\* st.dirh are what they leave behind, st.o the outcomes the library answered, st.ok
\* whether these are the answers the operation got.
RECURSIVE Replay(_, _, _)
Replay(st, log, i) ==
    IF i > Len(log) THEN st
    ELSE LET call == log[i]
             r == LibAnswer(st.fs, st.dirh, call.fn, Key(call.path), call.attr, call.val)
             o == OutcomeOf(call.fn, r)
             after == [st EXCEPT !.fs = r.fs, !.dirh = r.dirh]
         IN IF call.fn \in VoidCalls THEN Replay(after, log, i + 1)
            ELSE IF RcOf(call.fn, o) = call.rc /\ SizeOf(call.fn, o) = call.n
            THEN Replay([after EXCEPT !.o = Append(@, o)], log, i + 1)
            ELSE [st EXCEPT !.o = Append(@, o), !.ok = FALSE]

\* The run of operation Op, which makes at most n calls, in which every answer is the
\* answer of a working library: o is the outcomes known so far.
RECURSIVE Settle(_, _, _)
Settle(Op(_), o, n) ==
    LET c == Op(o \o [i \in 1..(n - Len(o)) |-> "ok"])
        r == Replay([fs |-> c.fs, dirh |-> c.dirh, o |-> <<>>, ok |-> TRUE], c.calls, 1)
    IN IF r.ok THEN [c EXCEPT !.fs = r.fs, !.dirh = r.dirh]
       ELSE Settle(Op, r.o, n)

Working(Op(_), n) == Settle(Op, <<>>, n)

Return(c, r) == [c EXCEPT !.ret = r]

\* F applied to the value of d
Once(d, F(_)) == [<<d>> EXCEPT ![1] = F(@)][1]

-----------------------------------------------------------------------------
(* Mount / format state machine *)

\* W25Q128::begin: sets up pins and SPI, always answers true.
extFlashBegin == TRUE

\* ext_LittleFSImpl::_tryMount
tryMount(c) ==
    LET c1 == IF c.mounted
              THEN [LfsVoid(c, "lfs_unmount", NoPath) EXCEPT !.mounted = FALSE]
              ELSE c
        c2 == LfsCall(c1, "lfs_mount", NoPath, "", 0)
        c3 == IF c2.rc = LFS_ERR_OK THEN [c2 EXCEPT !.mounted = TRUE] ELSE c2
    IN Return(c3, c3.mounted)

\* ext_LittleFSImpl::format, from "if (_timeCallback && _tryMount())" on
formatAttrs(c, wasMounted, t) ==
    LET m == IF timeCallback THEN tryMount(c) ELSE c
        entered == timeCallback /\ m.ret
        a1 == LfsCall(m, "lfs_setattr", <<"/">>, "c", t)
        a2 == LfsCall(a1, "lfs_setattr", <<"/">>, "t", t)
        u == IF entered
             THEN [LfsVoid(a2, "lfs_unmount", NoPath) EXCEPT !.mounted = FALSE]
             ELSE m
    IN IF entered /\ a1.rc # LFS_ERR_OK THEN Return(a1, FALSE)
       ELSE IF entered /\ a2.rc # LFS_ERR_OK THEN Return(a2, FALSE)
       ELSE IF wasMounted THEN tryMount(u)
       ELSE Return(u, TRUE)

\* ext_LittleFSImpl::format
formatBody(c, t) ==
    IF fsSize = 0 THEN Return(c, FALSE)
    ELSE LET wasMounted == c.mounted
             c1 == IF c.mounted
                   THEN [LfsVoid(c, "lfs_unmount", NoPath) EXCEPT !.mounted = FALSE]
                   ELSE c
             c2 == LfsCall(c1, "lfs_format", NoPath, "", 0)
         IN IF c2.rc # LFS_ERR_OK THEN Return(c2, FALSE)
            ELSE formatAttrs(c2, wasMounted, t)

format(c, t) ==
    LET r == formatBody([c EXCEPT !.in = "format"], t)
    IN [r EXCEPT !.in = c.in]

\* begin() without the "already mounted" early return
begin_noMountedCheck(c, t) ==
    IF fsSize <= 0 THEN Return(c, FALSE)
    ELSE LET c1 == tryMount(c)
         IN IF c1.ret THEN Return(c1, TRUE)
            ELSE IF ~autoFormat THEN Return(c1, FALSE)
            ELSE LET c2 == format(c1, t)
                 IN IF ~c2.ret THEN Return(c2, FALSE)
                    ELSE tryMount(c2)

\* begin() that retries the mount whatever format() answered
begin_retryAfterFailedFormat(c, t) ==
    IF c.mounted THEN Return(c, TRUE)
    ELSE IF fsSize <= 0 THEN Return(c, FALSE)
    ELSE LET c1 == tryMount(c)
         IN IF c1.ret THEN Return(c1, TRUE)
            ELSE IF ~autoFormat THEN Return(c1, FALSE)
            ELSE tryMount(format(c1, t))

\* begin() that formats whatever _cfg._autoFormat says
begin_ignoreAutoFormat(c, t) ==
    IF c.mounted THEN Return(c, TRUE)
    ELSE IF fsSize <= 0 THEN Return(c, FALSE)
    ELSE LET c1 == tryMount(c)
         IN IF c1.ret THEN Return(c1, TRUE)
            ELSE LET c2 == format(c1, t)
                 IN IF ~c2.ret THEN Return(c2, FALSE)
                    ELSE tryMount(c2)

\* ext_LittleFSImpl::begin
begin(c, t) ==
    IF extFlashBegin
    THEN IF c.mounted THEN Return(c, TRUE)
         ELSE IF fsSize <= 0 THEN Return(c, FALSE)
         ELSE LET c1 == tryMount(c)
              IN IF c1.ret THEN Return(c1, TRUE)
                 ELSE IF ~autoFormat THEN Return(c1, FALSE)
                 ELSE LET c2 == format(c1, t)
                      IN IF ~c2.ret THEN Return(c2, FALSE)
                         ELSE tryMount(c2)
    ELSE Return(c, FALSE)

\* end() without the test of _mounted
end_noMountedCheck(c) ==
    [LfsVoid(c, "lfs_unmount", NoPath) EXCEPT !.mounted = FALSE]

\* ext_LittleFSImpl::end
end(c) ==
    IF ~c.mounted THEN c
    ELSE [LfsVoid(c, "lfs_unmount", NoPath) EXCEPT !.mounted = FALSE]

-----------------------------------------------------------------------------
(* C strings: a path is a sequence of characters; NullPath is the null pointer *)

NullPath == <<"NULL">>
Slash == <<"/">>

Rep(ch, n) == [i \in 1..n |-> ch]

\* strchr(s + from - 1, ch): index of the first ch at or after from, 0 when none
strchrFrom(s, ch, from) ==
    LET S == {i \in from..Len(s) : s[i] = ch}
    IN IF S = {} THEN 0 ELSE CHOOSE i \in S : \A j \in S : i <= j

strchr(s, ch) == strchrFrom(s, ch, 1)

\* strrchr(s, ch): index of the last ch, 0 when none
strrchr(s, ch) ==
    LET S == {i \in 1..Len(s) : s[i] = ch}
    IN IF S = {} THEN 0 ELSE CHOOSE i \in S : \A j \in S : j <= i

NSlash(s) == Cardinality({i \in 1..Len(s) : s[i] = "/"})

\* !path || !path[0]
BadPath(path) == path = NullPath \/ path = <<>>

\* the name-length test off by one
TooLong_offByOne(len) == len > LFS_NAME_MAX

\* the name-length test of pathValid
TooLong(len) == len >= LFS_NAME_MAX

\* ext_LittleFSImpl::pathValid
RECURSIVE pathValid(_)
pathValid(path) ==
    IF path = <<>> THEN TRUE
    ELSE LET slash == strchr(path, "/")
         IN IF slash = 0 THEN ~TooLong(Len(path))
            ELSE IF TooLong(slash - 1) THEN FALSE
            ELSE pathValid(SubSeq(path, slash + 1, Len(path)))

-----------------------------------------------------------------------------
(* Path operations *)

\* ext_LittleFSImpl::exists
exists(c, path) ==
    IF ~c.mounted \/ BadPath(path) THEN Return(c, FALSE)
    ELSE LET c1 == LfsCall(c, "lfs_stat", path, "", 0)
         IN Return(c1, c1.rc = LFS_ERR_OK)

\* ext_LittleFSImpl::rename
rename(c, pathFrom, pathTo) ==
    IF ~c.mounted \/ BadPath(pathFrom) \/ BadPath(pathTo) THEN Return(c, FALSE)
    ELSE LET c1 == LfsCall(c, "lfs_rename", pathFrom, "", 0)
         IN Return(c1, c1.rc = LFS_ERR_OK)

\* ext_LittleFSImpl::info
info(c, usedBlocks) ==
    IF ~c.mounted THEN Return(c, FALSE)
    ELSE LET c1 == LfsVoid(c, "lfs_fs_size", NoPath)
         IN [Return(c1, TRUE) EXCEPT
                !.obj = [kind |-> "info", blockSize |-> SECTOR_SIZE_W25Q128_4KB,
                         pageSize |-> PAGE_SIZE_W25Q128_256B, maxPathLength |-> LFS_NAME_MAX,
                         totalBytes |-> fsSize,
                         usedBytes |-> usedBlocks * SECTOR_SIZE_W25Q128_4KB]]

\* remove() that prunes the parent only
removeParents_parentOnly(c, pathStr) ==
    LET ptr == strrchr(pathStr, "/")
    IN IF ptr = 0 THEN c
       ELSE LfsCall(c, "lfs_remove", SubSeq(pathStr, 1, ptr - 1), "", 0)

\* ext_LittleFSImpl::remove, the loop over the ancestors
RECURSIVE removeParents(_, _)
removeParents(c, pathStr) ==
    LET ptr == strrchr(pathStr, "/")
    IN IF ptr = 0 THEN c
       ELSE LET parent == SubSeq(pathStr, 1, ptr - 1)
            IN removeParents(LfsCall(c, "lfs_remove", parent, "", 0), parent)

\* remove() that answers with the outcome of its last removal
remove_lastRemoval(c, path) ==
    IF ~c.mounted \/ BadPath(path) THEN Return(c, FALSE)
    ELSE LET c1 == LfsCall(c, "lfs_remove", path, "", 0)
         IN IF c1.rc # LFS_ERR_OK THEN Return(c1, FALSE)
            ELSE LET c2 == removeParents(c1, path)
                 IN Return(c2, c2.rc = LFS_ERR_OK)

\* ext_LittleFSImpl::remove
remove(c, path) ==
    IF ~c.mounted \/ BadPath(path) THEN Return(c, FALSE)
    ELSE LET c1 == LfsCall(c, "lfs_remove", path, "", 0)
         IN IF c1.rc # LFS_ERR_OK THEN Return(c1, FALSE)
            ELSE Return(removeParents(c1, path), TRUE)

\* ext_LittleFSImpl::rmdir
rmdir(c, path) == remove(c, path)

\* mkdir() without the test of _mounted
mkdir_noMountedCheck(c, path, now) ==
    IF BadPath(path) THEN Return(c, FALSE)
    ELSE LET c1 == LfsCall(c, "lfs_mkdir", path, "", 0)
             c2 == IF c1.rc = LFS_ERR_OK /\ timeCallback
                   THEN LfsCall(c1, "lfs_setattr", path, "c", now)
                   ELSE c1
         IN Return(c2, c1.rc = LFS_ERR_OK)

\* mkdir() answering with the result of the attribute write
mkdir_attrDecides(c, path, now) ==
    IF ~c.mounted \/ BadPath(path) THEN Return(c, FALSE)
    ELSE LET c1 == LfsCall(c, "lfs_mkdir", path, "", 0)
             c2 == IF c1.rc = LFS_ERR_OK /\ timeCallback
                   THEN LfsCall(c1, "lfs_setattr", path, "c", now)
                   ELSE c1
         IN Return(c2, c2.rc = LFS_ERR_OK)

\* ext_LittleFSImpl::mkdir
mkdir(c, path, now) ==
    IF ~c.mounted \/ BadPath(path) THEN Return(c, FALSE)
    ELSE LET c1 == LfsCall(c, "lfs_mkdir", path, "", 0)
             c2 == IF c1.rc = LFS_ERR_OK /\ timeCallback
                   THEN LfsCall(c1, "lfs_setattr", path, "c", now)
                   ELSE c1
         IN Return(c2, c1.rc = LFS_ERR_OK)

\* ext_LittleFSImpl::stat; inf is what lfs_stat fills in, stored the value of attribute 'c'
stat(c, path, inf, stored) ==
    IF ~c.mounted \/ BadPath(path) THEN Return(c, FALSE)
    ELSE LET c1 == LfsCall(c, "lfs_stat", path, "", 0)
             isDir == inf.type = "LFS_TYPE_DIR"
             c2 == LfsCall(c1, "lfs_getattr", path, "c", 0)
             ctime == IF c2.rc = LFS_ERR_OK /\ c2.n = 8 THEN stored ELSE 0
         IN IF c1.rc # LFS_ERR_OK THEN Return(c1, FALSE)
            ELSE [Return(c2, TRUE) EXCEPT
                     !.obj = [kind |-> "stat", size |-> IF isDir THEN 0 ELSE inf.size,
                              blocksize |-> SECTOR_SIZE_W25Q128_4KB, isDir |-> isDir,
                              ctime |-> ctime, atime |-> ctime]]

\* ext_LittleFSImpl::_getFlags
getFlags(openMode, accessMode) ==
    (IF "OM_CREATE" \in openMode THEN {"LFS_O_CREAT"} ELSE {})
    \cup (IF "OM_APPEND" \in openMode THEN {"LFS_O_APPEND"} ELSE {})
    \cup (IF "OM_TRUNCATE" \in openMode THEN {"LFS_O_TRUNC"} ELSE {})
    \cup (IF "AM_READ" \in accessMode THEN {"LFS_O_RDONLY"} ELSE {})
    \cup (IF "AM_WRITE" \in accessMode THEN {"LFS_O_WRONLY"} ELSE {})

\* ext_LittleFSImpl::open, the loop making the intermediate directories
RECURSIVE makeDirs(_, _, _)
makeDirs(c, pathStr, from) ==
    LET ptr == strchrFrom(pathStr, "/", from)
    IN IF ptr = 0 THEN c
       ELSE makeDirs(LfsCall(c, "lfs_mkdir", SubSeq(pathStr, 1, ptr - 1), "", 0),
                     pathStr, ptr + 1)

\* open() that captures a creation time whatever the probe answered
openChecked_capturesAlways(c, path, openMode, accessMode, now) ==
    LET flags == getFlags(openMode, accessMode)
        c1 == IF "OM_CREATE" \in openMode /\ strchr(path, "/") # 0
              THEN makeDirs(c, path, 1)
              ELSE c
        probing == timeCallback /\ "OM_CREATE" \in openMode
        p == LfsCall(c1, "lfs_file_open", path, "LFS_O_RDONLY", {"LFS_O_RDONLY"})
        c2 == IF ~probing THEN c1
              ELSE IF p.rc = LFS_ERR_OK THEN LfsVoid(p, "lfs_file_close", path)
              ELSE p
        creation == IF probing THEN now ELSE 0
        c3 == LfsCall(c2, "lfs_file_open", path, "flags", flags)
    IN IF c3.rc = LFS_ERR_ISDIR
       THEN [Return(c3, TRUE) EXCEPT
                !.obj = [kind |-> "nameonly", name |-> path, flags |-> flags,
                         creation |-> creation]]
       ELSE IF c3.rc = LFS_ERR_OK
       THEN [Return(LfsVoid(c3, "lfs_file_sync", path), TRUE) EXCEPT
                !.obj = [kind |-> "file", name |-> path, flags |-> flags,
                         creation |-> creation]]
       ELSE Return(c3, FALSE)

\* ext_LittleFSImpl::open, after the three precondition tests
openChecked(c, path, openMode, accessMode, now) ==
    LET flags == getFlags(openMode, accessMode)
        c1 == IF "OM_CREATE" \in openMode /\ strchr(path, "/") # 0
              THEN makeDirs(c, path, 1)
              ELSE c
        probing == timeCallback /\ "OM_CREATE" \in openMode
        p == LfsCall(c1, "lfs_file_open", path, "LFS_O_RDONLY", {"LFS_O_RDONLY"})
        c2 == IF ~probing THEN c1
              ELSE IF p.rc = LFS_ERR_OK THEN LfsVoid(p, "lfs_file_close", path)
              ELSE p
        creation == IF probing /\ p.rc # LFS_ERR_OK THEN now ELSE 0
        c3 == LfsCall(c2, "lfs_file_open", path, "flags", flags)
    IN IF c3.rc = LFS_ERR_ISDIR
       THEN [Return(c3, TRUE) EXCEPT
                !.obj = [kind |-> "nameonly", name |-> path, flags |-> flags,
                         creation |-> creation]]
       ELSE IF c3.rc = LFS_ERR_OK
       THEN [Return(LfsVoid(c3, "lfs_file_sync", path), TRUE) EXCEPT
                !.obj = [kind |-> "file", name |-> path, flags |-> flags,
                         creation |-> creation]]
       ELSE Return(c3, FALSE)

\* ext_LittleFSImpl::open
open(c, path, openMode, accessMode, now) ==
    IF ~c.mounted THEN Return(c, FALSE)
    ELSE IF BadPath(path) THEN Return(c, FALSE)
    ELSE IF ~pathValid(path) THEN Return(c, FALSE)
    ELSE openChecked(c, path, openMode, accessMode, now)

\* ext_LittleFSImpl::openDir: the scratch copy without its trailing slashes
RECURSIVE stripSlashes(_)
stripSlashes(pathStr) ==
    IF Len(pathStr) # 0 /\ pathStr[Len(pathStr)] = "/"
    THEN stripSlashes(SubSeq(pathStr, 1, Len(pathStr) - 1))
    ELSE pathStr

\* ext_LittleFSImpl::openDir: open the directory that contains pathStr
openParent(c, pathStr) ==
    LET ptr == strrchr(pathStr, "/")
    IN IF ptr = 0
       THEN [d |-> LfsCall(c, "lfs_dir_open", Slash, "", 0), filter |-> pathStr,
             pathStr |-> pathStr]
       ELSE [d |-> LfsCall(c, "lfs_dir_open", SubSeq(pathStr, 1, ptr - 1), "", 0),
             filter |-> SubSeq(pathStr, ptr + 1, Len(pathStr)),
             pathStr |-> SubSeq(pathStr, 1, ptr - 1)]

\* ext_LittleFSImpl::openDir; inf is what lfs_stat fills in
openDir(c, path, inf) ==
    IF ~c.mounted \/ path = NullPath THEN Return(c, FALSE)
    ELSE LET pathStr == stripSlashes(path)
             s == LfsCall(c, "lfs_stat", pathStr, "", 0)
             o == IF pathStr = <<>>
                  THEN [d |-> LfsCall(c, "lfs_dir_open", Slash, "", 0), filter |-> <<>>,
                        pathStr |-> pathStr]
                  ELSE IF s.rc = LFS_ERR_OK
                  THEN IF inf.type = "LFS_TYPE_DIR"
                       THEN [d |-> LfsCall(s, "lfs_dir_open", pathStr, "", 0),
                             filter |-> <<>>, pathStr |-> pathStr]
                       ELSE openParent(s, pathStr)
                  ELSE openParent(s, pathStr)
             r == LfsVoid(LfsVoid(o.d, "lfs_dir_read", NoPath), "lfs_dir_read", NoPath)
         IN IF o.d.rc # LFS_ERR_OK THEN Return(o.d, FALSE)
            ELSE [Return(r, TRUE) EXCEPT
                     !.obj = [kind |-> "dir", filter |-> o.filter, dirPath |-> o.pathStr]]

-----------------------------------------------------------------------------
(* The file object, ext_LittleFSFileImpl, and the directory object,         *)
(* ext_LittleFSDirImpl.  c.file and c.dir are the objects the caller holds. *)

\* The ext_LittleFSFileImpl that open() made, as FS::open hands it to the caller: with
\* the time source of the filesystem object.  closes counts the lfs_file_close calls
\* made on its library handle.
FileOf(o) ==
    [kind |-> o.kind, name |-> o.name, flags |-> o.flags, creation |-> o.creation,
     opened |-> TRUE, timeCallback |-> timeCallback, closes |-> 0,
     h |-> FileHandle(fs, Key(o.name), o.flags)]

\* close() that writes the attributes whatever the access mode of the handle
close_ignoresAccessMode(c, now) ==
    LET f == c.file
        c1 == [LibCall(c, "lfs_file_close", f.name, "lfs_file_t", f.h) EXCEPT !.file.opened = FALSE,
                                                                  !.file.closes = @ + 1]
        c2 == IF f.creation # 0 THEN LibCall(c1, "lfs_setattr", f.name, "c", f.creation)
              ELSE c1
        c3 == LibCall(c2, "lfs_setattr", f.name, "t", now)
    IN IF f.opened /\ f.kind = "file"
       THEN IF f.timeCallback THEN c3 ELSE c1
       ELSE c

\* close() that leaves _opened set
close_staysOpen(c, now) ==
    LET f == c.file
        c1 == [LibCall(c, "lfs_file_close", f.name, "lfs_file_t", f.h) EXCEPT !.file.closes = @ + 1]
        c2 == IF f.creation # 0 THEN LibCall(c1, "lfs_setattr", f.name, "c", f.creation)
              ELSE c1
        c3 == LibCall(c2, "lfs_setattr", f.name, "t", now)
    IN IF f.opened /\ f.kind = "file"
       THEN IF f.timeCallback /\ "LFS_O_WRONLY" \in f.flags THEN c3 ELSE c1
       ELSE c

\* ext_LittleFSFileImpl::close; now is what the time source answers
close(c, now) ==
    LET f == c.file
        c1 == [LibCall(c, "lfs_file_close", f.name, "lfs_file_t", f.h) EXCEPT !.file.opened = FALSE,
                                                           !.file.closes = @ + 1]
        c2 == IF f.creation # 0 THEN LibCall(c1, "lfs_setattr", f.name, "c", f.creation)
              ELSE c1
        c3 == LibCall(c2, "lfs_setattr", f.name, "t", now)
    IN IF f.opened /\ f.kind = "file"
       THEN IF f.timeCallback /\ "LFS_O_WRONLY" \in f.flags THEN c3 ELSE c1
       ELSE c

\* A call on the lfs_file_t of the file object, answered r by the working library
HandleCall(c, fn, val, r) ==
    IF c.stale
    THEN [c EXCEPT !.calls = Append(@, [fn |-> fn, by |-> c.in, path |-> c.file.name,
                                        attr |-> "lfs_file_t", val |-> val,
                                        rc |-> LFS_ERR_IO, n |-> 0]),
                   !.rc = LFS_ERR_IO,
                   !.n = 0]
    ELSE [c EXCEPT !.calls = Append(@, [fn |-> fn, by |-> c.in, path |-> c.file.name,
                                        attr |-> "lfs_file_t", val |-> val, rc |-> r.rc,
                                        n |-> r.n]),
                   !.rc = r.rc,
                   !.n = r.n,
                   !.file.h = r.h]

\* The number a call on the file object returns
CountOf(c, n) == [Return(c, n > 0) EXCEPT !.n = n]

\* write() that answers with the size asked for
write_sizeAsked(c, buf) == CountOf(c, Len(buf))

\* ext_LittleFSFileImpl::write: the bytes written (n), 0 after a failure
write(c, buf) ==
    LET f == c.file
    IN IF ~f.opened \/ f.kind # "file" THEN CountOf(c, 0)
       ELSE Once(HandleCall(c, "lfs_file_write", buf,
                            LibFileWrite(c.fs, Key(f.name), f.h, buf)),
                 LAMBDA r : CountOf(r, IF r.rc # LFS_ERR_OK THEN 0 ELSE r.n))

\* ext_LittleFSFileImpl::read: the bytes read (n, and the bytes in obj), 0 after a
\* failure
fileRead(c, size) ==
    LET f == c.file
    IN IF ~f.opened \/ f.kind # "file"
       THEN [CountOf(c, 0) EXCEPT !.obj = [kind |-> "bytes", data |-> <<>>]]
       ELSE \* the library's answer, then the call as logged
            Once(LibFileRead(f.h, size), LAMBDA a :
                Once(HandleCall(c, "lfs_file_read", size, a), LAMBDA r :
                    [CountOf(r, IF r.rc # LFS_ERR_OK THEN 0 ELSE r.n)
                        EXCEPT !.obj = [kind |-> "bytes",
                                        data |-> IF r.rc # LFS_ERR_OK THEN <<>>
                                                 ELSE a.buf]]))

\* ext_LittleFSFileImpl::flush: lfs_file_sync writes out what the handle holds
flush(c) ==
    LET f == c.file
    IN IF ~f.opened \/ f.kind # "file" THEN c
       ELSE Once(LibCall(c, "lfs_file_sync", f.name, "lfs_file_t", f.h),
                 LAMBDA r : IF r.rc = LFS_ERR_OK THEN [r EXCEPT !.file.h.dirty = FALSE]
                            ELSE r)

\* ext_LittleFSFileImpl::size
sizeOfFile(c) ==
    LET f == c.file
    IN IF f.opened /\ f.kind = "file"
       THEN Once(HandleCall(c, "lfs_file_size", 0,
                            [rc |-> LFS_ERR_OK, n |-> Len(f.h.data), h |-> f.h]),
                 LAMBDA r : CountOf(r, r.n))
       ELSE CountOf(c, 0)

\* ext_LittleFSFileImpl::position: what lfs_file_tell answers, 0 without a handle
position(c) ==
    LET f == c.file
    IN IF ~f.opened \/ f.kind # "file" THEN CountOf(c, 0)
       ELSE Once(HandleCall(c, "lfs_file_tell", 0,
                            [rc |-> LFS_ERR_OK, n |-> f.h.pos, h |-> f.h]),
                 LAMBDA r : CountOf(r, IF r.rc # LFS_ERR_OK THEN 0 ELSE r.n))

\* isFile() that asks the library whatever the object holds
isFile_asksAlways(c) ==
    Once(LibCall(c, "lfs_stat", c.file.name, "", 0),
         LAMBDA r : Return(r, r.rc = LFS_ERR_OK /\ r.info.type = "LFS_TYPE_REG"))

\* ext_LittleFSFileImpl::isFile
isFile(c) ==
    LET f == c.file
    IN IF ~f.opened \/ f.kind # "file" THEN Return(c, FALSE)
       ELSE Once(LibCall(c, "lfs_stat", f.name, "", 0),
                 LAMBDA r : Return(r, r.rc = LFS_ERR_OK /\ r.info.type = "LFS_TYPE_REG"))

\* ext_LittleFSFileImpl::isDirectory
isDirectory(c) ==
    LET f == c.file
    IN IF ~f.opened THEN Return(c, FALSE)
       ELSE IF f.kind # "file" THEN Return(c, TRUE)
       ELSE Once(LibCall(c, "lfs_stat", f.name, "", 0),
                 LAMBDA r : Return(r, r.rc = LFS_ERR_OK /\ r.info.type = "LFS_TYPE_DIR"))

\* ext_LittleFSFileImpl::truncate
truncate(c, size) ==
    LET f == c.file
    IN IF ~f.opened \/ f.kind # "file" THEN Return(c, FALSE)
       ELSE Once(HandleCall(c, "lfs_file_truncate", size,
                            LibFileTruncate(c.fs, Key(f.name), f.h, size)),
                 LAMBDA r : Return(r, r.rc = LFS_ERR_OK))

\* What a seek() leaves: returns tells whether the call comes back at all
Sought(c, r, returns) == [Return(c, r) EXCEPT !.obj = [kind |-> "seek", returns |-> returns]]

\* ext_LittleFSFileImpl::seek.  seen holds the calls this call is nested in, each as
\* the position it started from and its arguments: a call that is in seen repeats
\* one that has not returned yet, on the same file, and the recursion never ends.
RECURSIVE seekFrom(_, _, _, _)
seekFrom(c, pos, mode, seen) ==
    LET f == c.file
        offset == IF mode = "SeekEnd" THEN 0 - pos ELSE pos
        this == <<f.h.pos, pos, mode>>
    IN IF ~f.opened \/ f.kind # "file" THEN Sought(c, FALSE, TRUE)
       ELSE IF this \in seen THEN Sought(c, FALSE, FALSE)
       ELSE Once(position(c), LAMBDA last :
               Once(HandleCall(last, "lfs_file_seek", <<offset, mode>>,
                               LibFileSeek(f.h, offset, mode)),
                    LAMBDA s :
                       IF s.rc # LFS_ERR_OK THEN Sought(s, FALSE, TRUE)
                       ELSE Once(position(s), LAMBDA p :
                               Once(sizeOfFile(p), LAMBDA z :
                                   IF p.n > z.n
                                   THEN Once(seekFrom(z, last.n, "SeekSet",
                                                      seen \cup {this}),
                                             LAMBDA back :
                                                Sought(back, FALSE, back.obj.returns))
                                   ELSE Sought(z, TRUE, TRUE)))))

seek(c, pos, mode) == seekFrom(c, pos, mode, {})

\* ext_LittleFSFileImpl::~ext_LittleFSFileImpl
destroyFile(c, now) == IF c.file.opened THEN close(c, now) ELSE c

\* The ext_LittleFSDirImpl that openDir() made; h is the library's lfs_dir_t.  fresh:
\* whether it was "opened" or "rewound" and next() has not been called since ("no":
\* it has).
DirOf(c) ==
    [kind |-> "dir", pattern |-> c.obj.filter, dirPath |-> c.obj.dirPath, valid |-> FALSE,
     opened |-> TRUE, dirent |-> NoInfo, h |-> c.dirh, fresh |-> "opened"]

\* strncmp(name, pattern, n) == 0 for n the length of pattern
strncmpEq(name, pattern) ==
    Len(name) >= Len(pattern) /\ SubSeq(name, 1, Len(pattern)) = pattern

\* next() that answers with the first entry it reads, whatever the pattern
next_noFilter(c) ==
    LET r == LibCall(c, "lfs_dir_read", NoPath, "", 0)
    IN Return([r EXCEPT !.dir.dirent = r.info, !.dir.valid = r.n = 1, !.dir.h = r.dirh,
                        !.dir.fresh = "no"],
              r.n = 1)

\* ext_LittleFSDirImpl::next
RECURSIVE next(_)
next(c) ==
    LET n == Len(c.dir.pattern)
        r == LibCall(c, "lfs_dir_read", NoPath, "", 0)
        valid == r.n = 1
        match == n = 0 \/ strncmpEq(r.info.name, c.dir.pattern)
        d == [r EXCEPT !.dir.dirent = r.info, !.dir.valid = valid, !.dir.h = r.dirh,
                       !.dir.fresh = "no"]
    IN IF valid /\ ~match THEN next(d) ELSE Return(d, valid)

\* rewind() without the two reads that skip "." and ".."
rewind_noSkip(c) ==
    LET c1 == LibCall([c EXCEPT !.dir.valid = FALSE], "lfs_dir_rewind", NoPath, "", 0)
    IN [Return(c1, c1.rc = LFS_ERR_OK) EXCEPT !.dir.h = c1.dirh, !.dir.fresh = "rewound"]

\* ext_LittleFSDirImpl::rewind
rewind(c) ==
    LET c1 == LibCall([c EXCEPT !.dir.valid = FALSE], "lfs_dir_rewind", NoPath, "", 0)
        c2 == LibCall(LibCall(c1, "lfs_dir_read", NoPath, "", 0), "lfs_dir_read", NoPath,
                      "", 0)
    IN [Return(c2, c1.rc = LFS_ERR_OK) EXCEPT !.dir.h = c2.dirh, !.dir.fresh = "rewound"]

\* ext_LittleFSDirImpl::fileName
fileName(d) == IF ~d.valid THEN NullPath ELSE d.dirent.name

\* ext_LittleFSDirImpl::fileSize
fileSize(d) == IF ~d.valid THEN 0 ELSE d.dirent.size

\* The time a read path answers with
TimeOf(c, t) == [Return(c, TRUE) EXCEPT !.obj = [kind |-> "time", time |-> t]]

\* ext_LittleFSImpl::getCreationTime; stored is the time in the blob of attribute 'c'
\* of the root
getCreationTime(c, stored) ==
    LET c1 == LfsCall(c, "lfs_getattr", Slash, "c", 8)
        c2 == LfsCall(c1, "lfs_getattr", Slash, "c", 4)
    IN IF c1.rc = LFS_ERR_OK /\ c1.n = 8 THEN TimeOf(c1, stored)
       ELSE IF c2.rc = LFS_ERR_OK /\ c2.n = 4 THEN TimeOf(c2, stored)
       ELSE TimeOf(c2, 0)

\* sizeof(time_t), the size of the buffer the file object reads its times into
SizeofTime == 8

\* ext_LittleFSFileImpl::getLastWrite and getCreationTime, which differ in the
\* attribute only; f is the file object, stored the time in the blob of the attribute
fileAttrTime(c, f, attr, stored) ==
    LET c1 == LfsCall(c, "lfs_getattr", f.name, attr, SizeofTime)
    IN IF f.opened /\ f.kind = "file"
       THEN TimeOf(c1, IF c1.rc = LFS_ERR_OK /\ c1.n = SizeofTime THEN stored ELSE 0)
       ELSE TimeOf(c, 0)

\* ext_LittleFSFileImpl::getLastWrite
getLastWrite(c, f, stored) == fileAttrTime(c, f, "t", stored)

\* ext_LittleFSFileImpl::getCreationTime
fileGetCreationTime(c, f, stored) == fileAttrTime(c, f, "c", stored)

\* ext_LittleFSDirImpl::_getAttr: the result is true when the library answers len
getAttr(c, d, attr, len) ==
    IF ~d.valid \/ len = 0 THEN Return(c, FALSE)
    ELSE LET tmpName == d.dirPath \o (IF d.dirPath # <<>> THEN Slash ELSE <<>>)
                            \o d.dirent.name
             c1 == LfsCall(c, "lfs_getattr", tmpName, attr, len)
         IN Return(c1, c1.rc = LFS_ERR_OK /\ c1.n = len)

\* ext_LittleFSDirImpl::fileTime and fileCreationTime, which differ in the attribute
\* only; d is the iterator, stored the time in the blob of the attribute
dirAttrTime(c, d, attr, stored) ==
    LET c1 == getAttr(c, d, attr, 8)
        c2 == getAttr(c1, d, attr, 4)
    IN IF c1.ret THEN TimeOf(c1, stored)
       ELSE IF c2.ret THEN TimeOf(c2, stored)
       ELSE TimeOf(c2, 0)

\* ext_LittleFSDirImpl::fileTime
fileTime(c, d, stored) == dirAttrTime(c, d, "t", stored)

\* ext_LittleFSDirImpl::fileCreationTime
fileCreationTime(c, d, stored) == dirAttrTime(c, d, "c", stored)

\* ext_LittleFSDirImpl::openFile and _getAttr: the path they build for the entry
tmpName(d) == d.dirPath \o (IF d.dirPath # <<>> THEN Slash ELSE <<>>) \o d.dirent.name

\* ext_LittleFSDirImpl::openFile
openFile(c, openMode, accessMode, now) ==
    IF ~c.dir.valid THEN Return(c, FALSE)
    ELSE open(c, tmpName(c.dir), openMode, accessMode, now)

\* ext_LittleFSDirImpl::~ext_LittleFSDirImpl
destroyDir(c) == IF c.dir.opened THEN LibCall(c, "lfs_dir_close", NoPath, "", 0) ELSE c

-----------------------------------------------------------------------------
(* Actions of the adapter.  An operation is called when the caller is idle; *)
(* its outcome stays observable until the caller takes it (Done).          *)

Finish(name, a, c) ==
    /\ op' = name
    /\ args' = a
    /\ pre' = mounted
    /\ mounted' = c.mounted
    /\ ret' = c.ret
    /\ obj' = c.obj
    /\ calls' = c.calls
    /\ fs' = c.fs
    /\ file' = c.file
    /\ dir' = c.dir
    /\ was' = [fs |-> fs, file |-> file, dir |-> dir]
    /\ UNCHANGED <<cmds, flashVars>>

Begin ==
    /\ op = "idle"
    /\ \E o \in Oracles(6), t \in Times :
          Finish("begin", <<>>, begin([Ctx(o) EXCEPT !.in = "begin"], t))
    /\ UNCHANGED adapterCfg

Format ==
    /\ op = "idle"
    /\ \E o \in Oracles(5), t \in Times :
          Finish("format", <<>>, format([Ctx(o) EXCEPT !.in = "format"], t))
    /\ UNCHANGED adapterCfg

End ==
    /\ op = "idle"
    /\ Finish("end", <<>>, end([Ctx(<<>>) EXCEPT !.in = "end"]))
    /\ UNCHANGED adapterCfg

\* ext_LittleFSImpl::setConfig
SetConfig ==
    /\ op = "idle"
    /\ \E typeOk \in BOOLEAN, af \in BOOLEAN :
          LET ok == ~(~typeOk \/ mounted)
          IN /\ autoFormat' = IF ok THEN af ELSE autoFormat
             /\ Finish("setConfig", <<>>, Return(Ctx(<<>>), ok))
    /\ UNCHANGED <<timeCallback, fsSize, ExternalFlash_mounted, extFlashLfs>>

\* FS::setTimeCallback, as ExternalFlash::setup calls it
SetTimeCallback ==
    /\ op = "idle"
    /\ timeCallback' = TRUE
    /\ Finish("setTimeCallback", <<>>, Return(Ctx(<<>>), TRUE))
    /\ UNCHANGED <<autoFormat, fsSize, ExternalFlash_mounted, extFlashLfs>>

\* The paths the operations are called with: null, empty, root, short relative and
\* absolute paths, and paths with a segment just below, at and above LFS_NAME_MAX.
LongSegs == {Rep("x", LFS_NAME_MAX - 1)} \cup {Rep("x", LFS_NAME_MAX + k) : k \in 0..MaxExtra}

PathInputs ==
    {NullPath, <<>>, Slash, <<"a">>, <<"/", "a">>, <<"a", "/">>, <<"/", "a", "/", "b">>}
    \cup LongSegs
    \cup {Slash \o s : s \in LongSegs}
    \cup {<<"/", "a", "/">> \o s : s \in LongSegs}
    \cup {s \o <<"/", "a">> : s \in LongSegs}

OracleLen(path) == IF path = NullPath THEN 0 ELSE NSlash(path)

OpenModes == {{}, {"OM_CREATE"}, {"OM_APPEND"}, {"OM_CREATE", "OM_TRUNCATE"}}
AccessModes == {{"AM_READ"}, {"AM_WRITE"}, {"AM_READ", "AM_WRITE"}}
FileInfos == [type : {"LFS_TYPE_REG", "LFS_TYPE_DIR"}, size : 0..MaxFileSize]

PathCtx(name, o) == [Ctx(o) EXCEPT !.in = name]

Exists ==
    /\ op = "idle"
    /\ \E path \in PathInputs, o \in Oracles(1) :
          Finish("exists", <<path>>, exists(PathCtx("exists", o), path))
    /\ UNCHANGED adapterCfg

Rename ==
    /\ op = "idle"
    /\ \E pathFrom \in PathInputs, pathTo \in PathInputs, o \in Oracles(1) :
          Finish("rename", <<pathFrom, pathTo>>,
                 rename(PathCtx("rename", o), pathFrom, pathTo))
    /\ UNCHANGED adapterCfg

Info ==
    /\ op = "idle"
    /\ \E usedBlocks \in 0..MaxUsedBlocks :
          Finish("info", <<>>, info(PathCtx("info", <<>>), usedBlocks))
    /\ UNCHANGED adapterCfg

Remove ==
    /\ op = "idle"
    /\ \E path \in PathInputs :
          \E o \in Oracles(1 + OracleLen(path)) :
             Finish("remove", <<path>>, remove(PathCtx("remove", o), path))
    /\ UNCHANGED adapterCfg

Rmdir ==
    /\ op = "idle"
    /\ \E path \in PathInputs :
          \E o \in Oracles(1 + OracleLen(path)) :
             Finish("rmdir", <<path>>, rmdir(PathCtx("rmdir", o), path))
    /\ UNCHANGED adapterCfg

Mkdir ==
    /\ op = "idle"
    /\ \E path \in PathInputs, o \in Oracles(2), now \in Times :
          Finish("mkdir", <<path>>, mkdir(PathCtx("mkdir", o), path, now))
    /\ UNCHANGED adapterCfg

Stat ==
    /\ op = "idle"
    /\ \E path \in PathInputs, o \in Oracles(2), inf \in FileInfos, stored \in Times :
          Finish("stat", <<path>>, stat(PathCtx("stat", o), path, inf, stored))
    /\ UNCHANGED adapterCfg

Open ==
    /\ op = "idle"
    /\ \E path \in PathInputs, openMode \in OpenModes, accessMode \in AccessModes,
          now \in Times :
          \E o \in Oracles(2 + OracleLen(path)) :
             Finish("open", <<path, openMode, accessMode>>,
                    open(PathCtx("open", o), path, openMode, accessMode, now))
    /\ UNCHANGED adapterCfg

OpenDir ==
    /\ op = "idle"
    /\ \E path \in PathInputs, o \in Oracles(2), inf \in FileInfos :
          Finish("openDir", <<path>>, openDir(PathCtx("openDir", o), path, inf))
    /\ UNCHANGED adapterCfg

-----------------------------------------------------------------------------
(* The adapter on a working library: the same operations, the library       *)
(* answering from the filesystem it keeps.  The caller holds at most one    *)
(* file object and one directory object at a time.                          *)

FsDirPaths == {<<"/", "a">>, <<"/", "a", "/", "b">>, <<"/", "a", "/", "d">>}
FsFilePaths == {<<"/", "a", "/", "b", "/", "c">>, <<"/", "a", "/", "b">>}
FsRemovePaths ==
    FsDirPaths \cup {<<"/", "a", "/", "b", "/", "c">>, <<"a", "/", "b", "/", "c">>}
FsListPaths == FsDirPaths \cup {Slash, <<"/", "a", "/", "b", "/", "c">>, <<"/", "a", "/", "c">>}

NoHandles == file = NoObj /\ dir = NoObj

FsBegin ==
    /\ op = "idle"
    /\ NoHandles
    /\ \E t \in Times :
          Finish("begin", <<>>, Working(LAMBDA o : begin(PathCtx("begin", o), t), 6))
    /\ UNCHANGED adapterCfg

FsMkdir ==
    /\ op = "idle"
    /\ NoHandles
    /\ \E path \in FsDirPaths, now \in Times :
          Finish("mkdir", <<path>>,
                 Working(LAMBDA o : mkdir(PathCtx("mkdir", o), path, now), 2))
    /\ UNCHANGED adapterCfg

FsRemove ==
    /\ op = "idle"
    /\ NoHandles
    /\ \E path \in FsRemovePaths :
          Finish("remove", <<path>>,
                 Working(LAMBDA o : remove(PathCtx("remove", o), path), 1 + OracleLen(path)))
    /\ UNCHANGED adapterCfg

FsRmdir ==
    /\ op = "idle"
    /\ NoHandles
    /\ \E path \in FsRemovePaths :
          Finish("rmdir", <<path>>,
                 Working(LAMBDA o : rmdir(PathCtx("rmdir", o), path), 1 + OracleLen(path)))
    /\ UNCHANGED adapterCfg

\* FS::open: ext_LittleFSImpl::open, the file object handed to the caller
FsOpen ==
    /\ op = "idle"
    /\ NoHandles
    /\ \E path \in FsFilePaths, openMode \in OpenModes, accessMode \in AccessModes,
          now \in Times :
          LET c == Working(LAMBDA o : open(PathCtx("open", o), path, openMode, accessMode,
                                           now),
                           2 + OracleLen(path))
          IN Finish("open", <<path, openMode, accessMode>>,
                    [c EXCEPT !.file = IF c.ret THEN FileOf(c.obj) ELSE NoObj])
    /\ UNCHANGED adapterCfg

\* what a library that is asked on a handle may do: its work, and while it is not
\* mounted also nothing
Stale == IF mounted THEN {FALSE} ELSE BOOLEAN

HandleCtx(name, stale) == [PathCtx(name, <<>>) EXCEPT !.stale = stale]

FileClose ==
    /\ op = "idle"
    /\ file # NoObj
    /\ \E now \in Times, st \in Stale :
          Finish("close", <<now>>, close(HandleCtx("close", st), now))
    /\ UNCHANGED adapterCfg

\* The caller drops the file object; its last state is what obj shows.
FileDestroy ==
    /\ op = "idle"
    /\ file # NoObj
    /\ \E now \in Times, st \in Stale :
          LET c == destroyFile(HandleCtx("~File", st), now)
          IN Finish("~File", <<>>, [c EXCEPT !.obj = c.file, !.file = NoObj])
    /\ UNCHANGED adapterCfg

\* FS::openDir: ext_LittleFSImpl::openDir, the directory object handed to the caller
FsOpenDir ==
    /\ op = "idle"
    /\ NoHandles
    /\ \E path \in FsListPaths :
          LET inf == LibAnswer(fs, NoDirHandle, "lfs_stat", Key(path), "", 0).info
              c == Working(LAMBDA o : openDir(PathCtx("openDir", o), path, inf), 2)
          IN Finish("openDir", <<path>>,
                    [c EXCEPT !.dir = IF c.ret THEN DirOf(c) ELSE NoObj])
    /\ UNCHANGED adapterCfg

DirNext ==
    /\ op = "idle"
    /\ dir # NoObj
    /\ Finish("next", <<>>, next(PathCtx("next", <<>>)))
    /\ UNCHANGED adapterCfg

DirRewind ==
    /\ op = "idle"
    /\ dir # NoObj
    /\ Finish("rewind", <<>>, rewind(PathCtx("rewind", <<>>)))
    /\ UNCHANGED adapterCfg

\* The caller drops the directory object.
DirDestroy ==
    /\ op = "idle"
    /\ dir # NoObj
    /\ LET c == destroyDir(PathCtx("~Dir", <<>>))
       IN Finish("~Dir", <<>>, [c EXCEPT !.obj = c.dir, !.dir = NoObj])
    /\ UNCHANGED adapterCfg

-----------------------------------------------------------------------------
(* The W25Q128 driver.  A chip command is what is sent between one select()  *)
(* and its deselect(): the command byte, the address bytes, the data bytes.  *)

Pow2(n) == 2 ^ n

\* A uint32_t is kept as its top byte and its low 24 bits: [hi, lo] is hi * 2^24 + lo.
U32Of(n) == [hi |-> (n \div Pow2(24)) % 256, lo |-> n % Pow2(24)]

\* a + n in uint32_t arithmetic
U32Add(a, n) ==
    LET sum == a.lo + n
    IN [hi |-> (a.hi + sum \div Pow2(24)) % 256, lo |-> sum % Pow2(24)]

Min(a, b) == IF a < b THEN a ELSE b

\* (addr >> 16) & 0xFF, (addr >> 8) & 0xFF, addr & 0xFF
AddrBytes(addr) ==
    <<(addr.lo \div Pow2(16)) % 256, (addr.lo \div Pow2(8)) % 256, addr.lo % 256>>

\* The chip's memory: the pages that are not in the erased state, each as its 256
\* bytes; every other page reads as ERASED.
Blank == [p \in {} |-> <<>>]

ErasedPage == [k \in 1..PAGE_SIZE_W25Q128_256B |-> ERASED]

PageOf(mem, p) == IF p \in DOMAIN mem THEN mem[p] ELSE ErasedPage

\* bitwise a & b
RECURSIVE And8(_, _)
And8(a, b) ==
    IF a = ERASED THEN b
    ELSE IF a = 0 \/ b = 0 THEN 0
    ELSE (a % 2) * (b % 2) + 2 * And8(a \div 2, b \div 2)

\* Page program in the chip: programming clears bits only.  Data that runs past the
\* end of the page of the start address either wraps to the start of that page (what
\* the W25Q128 does) or runs on into the next page: one command across a page
\* boundary has no defined outcome.
ChipProgram(mem, a, data, wraps) ==
    LET p == a \div PAGE_SIZE_W25Q128_256B
        succ == (p + 1) % (FLASH_SIZE_W25Q128 \div PAGE_SIZE_W25Q128_256B)
        col == a % PAGE_SIZE_W25Q128_256B
        n == Len(data)
        spills == ~wraps /\ col + n > PAGE_SIZE_W25Q128_256B
        oldP == PageOf(mem, p)
        newP == [k \in 1..PAGE_SIZE_W25Q128_256B |->
                    LET i == IF wraps THEN ((k - 1 - col) % PAGE_SIZE_W25Q128_256B) + 1
                             ELSE k - col
                    IN IF i >= 1 /\ i <= n THEN And8(oldP[k], data[i]) ELSE oldP[k]]
        oldN == PageOf(mem, succ)
        newN == [k \in 1..PAGE_SIZE_W25Q128_256B |->
                    LET i == PAGE_SIZE_W25Q128_256B - col + k
                    IN IF i <= n THEN And8(oldN[k], data[i]) ELSE oldN[k]]
        touched == IF spills THEN {p, succ} ELSE {p}
        dirty == (IF newP # ErasedPage THEN {p} ELSE {})
                    \cup (IF spills /\ newN # ErasedPage THEN {succ} ELSE {})
    IN [q \in (DOMAIN mem \ touched) \cup dirty |->
            IF q = p THEN newP ELSE IF q \in touched THEN newN ELSE mem[q]]

\* Sector erase in the chip: the whole 4 KB sector that holds the address is erased.
ChipSectorErase(mem, a) ==
    [q \in {p \in DOMAIN mem :
                (p * PAGE_SIZE_W25Q128_256B) \div SECTOR_SIZE_W25Q128_4KB
                    # a \div SECTOR_SIZE_W25Q128_4KB} |-> mem[q]]

\* Read data in the chip: consecutive bytes from the address on, wrapping at the end
\* of the chip.
ChipRead(mem, a, n) ==
    [i \in 1..n |->
        LET b == (a + i - 1) % FLASH_SIZE_W25Q128
        IN PageOf(mem, b \div PAGE_SIZE_W25Q128_256B)[(b % PAGE_SIZE_W25Q128_256B) + 1]]

\* the 24-bit address the chip reads from the three address bytes
ChipAddr(b) == b[1] * Pow2(16) + b[2] * Pow2(8) + b[3]

\* The status register the chip answers: BUSY (bit 0) and WEL (bit 1)
ChipStatus(d) == (IF d.busy # 0 THEN 1 ELSE 0) + (IF d.wel THEN 2 ELSE 0)

\* The chip executes a command when chip-select is released.  A program or erase
\* needs the write-enable latch, keeps the chip busy for a while and clears the
\* latch when it completes;
\* a busy chip ignores everything but status reads.
ChipExec(d) ==
    LET cmd == Head(d.rx)
        idle == d.busy = 0
        a == ChipAddr(SubSeq(d.rx, 2, 4))
        n == IF d.busyFor = <<>> THEN 0 ELSE Head(d.busyFor)
        busyNow == [d EXCEPT !.busy = n, !.wel = n # 0,
                             !.busyFor = IF @ = <<>> THEN @ ELSE Tail(@)]
    IN IF cmd = CMD_WRITE_ENABLE /\ idle THEN [d EXCEPT !.wel = TRUE]
       ELSE IF cmd = CMD_WRITE_DISABLE /\ idle THEN [d EXCEPT !.wel = FALSE]
       ELSE IF cmd = CMD_PAGE_PROGRAM /\ idle /\ d.wel /\ Len(d.rx) > 4
       THEN [busyNow EXCEPT !.mem = ChipProgram(d.mem, a, SubSeq(d.rx, 5, Len(d.rx)), d.wraps)]
       ELSE IF cmd = CMD_SECTOR_ERASE /\ idle /\ d.wel /\ Len(d.rx) = 4
       THEN [busyNow EXCEPT !.mem = ChipSectorErase(d.mem, a)]
       ELSE IF cmd = CMD_CHIP_ERASE /\ idle /\ d.wel /\ Len(d.rx) = 1
       THEN [busyNow EXCEPT !.mem = Blank]
       ELSE d

\* The state threaded through one driver operation: the chip (memory, write-enable
\* latch, chip-select, the bytes received since select, the number of status reads
\* it still answers busy to, how long each coming program or erase keeps it busy,
\* what it does with data past the end of a page),
\* the commands sent, the status last read, the buffer read into, the result, and
\* whether select was called on a selected chip or a byte sent to a deselected one.
DrvOf(ch, busyFor) ==
    [cmds |-> <<>>, busy |-> ch.busy, busyFor |-> busyFor, status |-> 0,
     mem |-> ch.mem, wel |-> ch.wel, cs |-> ch.cs, rx |-> <<>>, wraps |-> TRUE,
     nested |-> FALSE, bare |-> FALSE, buf |-> <<>>, rc |-> 0]

Drv(busyFor) == DrvOf(chip, busyFor)

\* W25Q128::select
select(d) ==
    Once(d, LAMBDA x : [x EXCEPT !.nested = @ \/ x.cs, !.cs = TRUE, !.rx = <<>>])

\* W25Q128::transfer, for a run of bytes
transfer(d, bytes) ==
    Once(d, LAMBDA x : [x EXCEPT !.rx = IF x.cs THEN @ \o bytes ELSE @,
                                 !.bare = @ \/ (~x.cs /\ bytes # <<>>)])

\* W25Q128::sendCommand
sendCommand(d, cmd) == transfer(d, <<cmd>>)

\* which commands are followed by three address bytes
Addressed == {CMD_PAGE_PROGRAM, CMD_SECTOR_ERASE, CMD_READ_DATA}

\* W25Q128::deselect
deselect(d) ==
    Once(d, LAMBDA x :
        IF ~x.cs \/ x.rx = <<>> THEN [x EXCEPT !.cs = FALSE]
        ELSE LET n == IF Head(x.rx) \in Addressed THEN Min(4, Len(x.rx)) ELSE 1
                 sent == [cmd |-> Head(x.rx), addr |-> SubSeq(x.rx, 2, n),
                          data |-> SubSeq(x.rx, n + 1, Len(x.rx)), busy |-> x.busy # 0]
             IN [ChipExec(x) EXCEPT !.cs = FALSE, !.rx = <<>>, !.cmds = Append(@, sent)])

\* select(); sendCommand(cmd); transfer(each address and data byte); deselect()
Command(d, cmd, addr, data) ==
    deselect(transfer(transfer(sendCommand(select(d), cmd), addr), data))

\* write-enable that leaves the chip selected
enableWrite_noDeselect(d) == sendCommand(select(d), CMD_WRITE_ENABLE)

\* W25Q128::enableWrite
enableWrite(d) == Command(d, CMD_WRITE_ENABLE, <<>>, <<>>)

\* W25Q128::disableWrite
disableWrite(d) == Command(d, CMD_WRITE_DISABLE, <<>>, <<>>)

\* W25Q128::readStatus: one more status read has gone by
readStatus(d) ==
    Once(d, LAMBDA x :
        [Command(x, CMD_READ_STATUS_REG, <<>>, <<0>>) EXCEPT
            !.status = ChipStatus(x),
            !.busy = IF x.busy > 0 THEN x.busy - 1 ELSE x.busy,
            !.wel = x.wel /\ x.busy # 1])

\* a loop condition that gives up at once
isBusy_givesUp(status) == FALSE

\* W25Q128::waitUntilReady, the loop condition: readStatus() & 0x01
isBusy(status) == status % 2 = 1

\* a wait of one status read
waitUntilReady_onePoll(d) == readStatus(d)

\* W25Q128::waitUntilReady
RECURSIVE waitUntilReady(_)
waitUntilReady(d) ==
    LET r == readStatus(d)
    IN IF isBusy(r.status) THEN waitUntilReady(r) ELSE r

\* the page-program command of W25Q128::program
pageProgram(d, addr, data) == Command(d, CMD_PAGE_PROGRAM, AddrBytes(addr), data)

\* a chunk one byte short of a page
ChunkSize_shortPage(size, written) == Min(pageSize - 1, size - written)

\* W25Q128::program: size_t chunkSize = min(pageSize, size - written)
ChunkSize(size, written) == Min(pageSize, size - written)

\* W25Q128::program, one turn of the loop up to the wait: write-enable, then the
\* page-program command with the next chunk
programChunk(d, addr, buffer, size, written) ==
    pageProgram(enableWrite(d), addr,
                SubSeq(buffer, written + 1, written + ChunkSize(size, written)))

\* W25Q128::program, the while loop
RECURSIVE programLoop(_, _, _, _, _)
programLoop(d, addr, buffer, size, written) ==
    IF ~(written < size) THEN d
    ELSE LET chunkSize == ChunkSize(size, written)
             d3 == waitUntilReady(programChunk(d, addr, buffer, size, written))
         IN programLoop(d3, U32Add(addr, chunkSize), buffer, size, written + chunkSize)

\* W25Q128::program
program(d, addr, buffer, size) == [programLoop(d, addr, buffer, size, 0) EXCEPT !.rc = 0]

\* an lfs_prog that takes the chip's 64 KB block for the filesystem's block size
lfs_prog_block64K(d, block, off, buffer, size) ==
    program(d, U32Of(block * 16 * SECTOR_SIZE_W25Q128_4KB + off), buffer, size)

\* W25Q128::lfs_prog
lfs_prog(d, block, off, buffer, size) ==
    program(d, U32Of(block * SECTOR_SIZE_W25Q128_4KB + off), buffer, size)

\* a read that reports a chip answering erased bytes only as a failure
read_failsOnErased(d, addr, size) ==
    LET data == ChipRead(d.mem, ChipAddr(AddrBytes(addr)), size)
    IN [Command(d, CMD_READ_DATA, AddrBytes(addr), [i \in 1..size |-> 0]) EXCEPT
            !.buf = data,
            !.rc = IF size > 0 /\ \A i \in 1..size : data[i] = ERASED THEN -1 ELSE 0]

\* W25Q128::read: the chip answers each transfer(0x00) with the next byte
read(d, addr, size) ==
    LET s == transfer(sendCommand(select(d), CMD_READ_DATA), AddrBytes(addr))
        t == transfer(s, [i \in 1..size |-> 0])
    IN [deselect(t) EXCEPT !.buf = ChipRead(d.mem, ChipAddr(AddrBytes(addr)), size),
                           !.rc = 0]

\* W25Q128::lfs_read
lfs_read(d, block, off, size) ==
    read(d, U32Of(block * SECTOR_SIZE_W25Q128_4KB + off), size)

\* an erase that does not assert write-enable first
erase_noWriteEnable(d, addr) ==
    [waitUntilReady(Command(d, CMD_SECTOR_ERASE, AddrBytes(addr), <<>>)) EXCEPT !.rc = 0]

\* W25Q128::erase up to the wait: write-enable, then the sector-erase command
eraseCommand(d, addr) == Command(enableWrite(d), CMD_SECTOR_ERASE, AddrBytes(addr), <<>>)

\* W25Q128::erase
erase(d, addr) == [waitUntilReady(eraseCommand(d, addr)) EXCEPT !.rc = 0]

\* W25Q128::lfs_erase
lfs_erase(d, block) == erase(d, U32Of(block * SECTOR_SIZE_W25Q128_4KB))

\* W25Q128::lfs_sync
lfs_sync(d) == [d EXCEPT !.rc = 0]

\* chipErase() that returns while the chip erases
chipErase_noWait(d) == Command(enableWrite(d), CMD_CHIP_ERASE, <<>>, <<>>)

\* W25Q128::chipErase
chipErase(d) == waitUntilReady(Command(enableWrite(d), CMD_CHIP_ERASE, <<>>, <<>>))

\* manufacturer ID, memory type, capacity of a W25Q128
ChipIDBytes == <<239, 64, 24>>

\* W25Q128::readID
readID(d) == [Command(d, CMD_READ_ID, <<>>, <<0, 0, 0>>) EXCEPT !.buf = ChipIDBytes]

\* The buffers program() is called with: byte i is i modulo 256 (the pattern of
\* Test_BlockWriteRead) or i modulo 251 (no two pages alike).
BufModuli == {251, 256}
Buffer(m, size) == [i \in 1..size |-> (i - 1) % m]

ProgSizes ==
    {n \in {k * pageSize + e : k \in 0..MaxPages, e \in {-1, 0, 1}} : n >= 0}

ProgAddrs ==
    {U32Of(n) : n \in {0, 1, 128, 255, 256, SECTOR_SIZE_W25Q128_4KB - 1,
                       FLASH_SIZE_W25Q128 - PAGE_SIZE_W25Q128_256B}}
    \cup {[hi |-> 255, lo |-> FLASH_SIZE_W25Q128 - PAGE_SIZE_W25Q128_256B]}

\* W25Q128::Test_BlockWriteRead: rc is 1 for true (the bytes read are the bytes
\* written), 0 for false
Test_BlockWriteRead(d, startBlock) ==
    LET writeBuf == Buffer(256, 256)
        p == program(d, U32Of(startBlock), writeBuf, 256)
        r == read(p, U32Of(startBlock), 256)
    IN [r EXCEPT !.rc = IF r.buf = writeBuf THEN 1 ELSE 0]

\* the blocks Test_BlockWriteRead is called with (uint8_t startBlock)
TestBlocks == {0, 1, 16, 255}

\* how long each of n program or erase commands keeps the chip busy
BusySeqs(n) == [1..n -> 0..MaxBusy]

\* the number of pages a buffer of this size fills
NPages(size) == (size + pageSize - 1) \div pageSize

\* What littlefs calls the prog callback with: a block below block_count, an offset
\* and a size that are multiples of prog_size, inside the block.
LfsBlocks == {0, 1, FLASH_SIZE_W25Q128 \div SECTOR_SIZE_W25Q128_4KB - 1}
LfsOffsets == {k * PAGE_SIZE_W25Q128_256B : k \in 0..(SECTOR_SIZE_W25Q128_4KB \div PAGE_SIZE_W25Q128_256B - 1)}
LfsSizes == {k * PAGE_SIZE_W25Q128_256B : k \in 1..MaxPages}

\* The ranges read() is called with
ReadAddrs == {U32Of(n) : n \in {0, 128, FLASH_SIZE_W25Q128 - PAGE_SIZE_W25Q128_256B}}
ReadSizes == {0, 1, pageSize + 1}
ReadOffsets == {0, SECTOR_SIZE_W25Q128_4KB - PAGE_SIZE_W25Q128_256B}

\* The chip is programmed in the erased state (erase-before-write).
Erased == chip.mem = Blank

Returned(name, a, d) ==
    /\ op' = name
    /\ args' = a
    /\ cmds' = d.cmds
    /\ ret' = TRUE
    /\ obj' = [kind |-> "driver", rc |-> d.rc, data |-> d.buf,
               nested |-> d.nested, bare |-> d.bare, memBefore |-> chip.mem]
    /\ chip' = [mem |-> d.mem, wel |-> d.wel, cs |-> d.cs, busy |-> d.busy]
    /\ UNCHANGED <<mounted, adapterCfg, pre, calls, fsVars>>

FinishDrv(name, a, d) == Returned(name, a, d) /\ UNCHANGED run

Program ==
    /\ op = "idle"
    /\ Erased
    /\ \E addr \in ProgAddrs, size \in ProgSizes, m \in BufModuli :
       \E b \in BusySeqs(NPages(size)), wraps \in BOOLEAN :
          FinishDrv("program", <<addr, size, m>>,
                    program([Drv(b) EXCEPT !.wraps = wraps], addr, Buffer(m, size), size))

LfsProg ==
    /\ op = "idle"
    /\ Erased
    /\ \E block \in LfsBlocks, off \in LfsOffsets, size \in LfsSizes, m \in BufModuli :
       \E b \in BusySeqs(NPages(size)) :
          /\ off + size <= SECTOR_SIZE_W25Q128_4KB
          /\ FinishDrv("lfs_prog", <<block, off, size, m>>,
                       lfs_prog(Drv(b), block, off, Buffer(m, size), size))

Read ==
    /\ op = "idle"
    /\ \E addr \in ReadAddrs, size \in ReadSizes :
          FinishDrv("read", <<addr, size>>, read(Drv(<<>>), addr, size))

LfsRead ==
    /\ op = "idle"
    /\ \E block \in LfsBlocks, off \in ReadOffsets, size \in LfsSizes :
          /\ off + size <= SECTOR_SIZE_W25Q128_4KB
          /\ FinishDrv("lfs_read", <<block, off, size>>,
                       lfs_read(Drv(<<>>), block, off, size))

TestBlockWriteRead ==
    /\ op = "idle"
    /\ Erased
    /\ \E startBlock \in TestBlocks, b \in BusySeqs(1), wraps \in BOOLEAN :
          FinishDrv("Test_BlockWriteRead", <<startBlock>>,
                    Test_BlockWriteRead([Drv(b) EXCEPT !.wraps = wraps], startBlock))

Erase ==
    /\ op = "idle"
    /\ \E addr \in ReadAddrs, b \in BusySeqs(1) :
          FinishDrv("erase", <<addr>>, erase(Drv(b), addr))

LfsErase ==
    /\ op = "idle"
    /\ \E block \in LfsBlocks, b \in BusySeqs(1) :
          FinishDrv("lfs_erase", <<block>>, lfs_erase(Drv(b), block))

LfsSync ==
    /\ op = "idle"
    /\ FinishDrv("lfs_sync", <<>>, lfs_sync(Drv(<<>>)))

ChipErase ==
    /\ op = "idle"
    /\ \E b \in BusySeqs(1) : FinishDrv("chipErase", <<>>, chipErase(Drv(b)))

ReadStatus ==
    /\ op = "idle"
    /\ FinishDrv("readStatus", <<>>, readStatus(Drv(<<>>)))

ReadID ==
    /\ op = "idle"
    /\ FinishDrv("readID", <<>>, readID(Drv(<<>>)))

EnableWrite ==
    /\ op = "idle"
    /\ FinishDrv("enableWrite", <<>>, enableWrite(Drv(<<>>)))

DisableWrite ==
    /\ op = "idle"
    /\ FinishDrv("disableWrite", <<>>, disableWrite(Drv(<<>>)))

(* program() and erase() followed poll by poll.  The chip may never clear its busy  *)
(* bit (Stuck); the command log is not kept here.                                  *)

Stuck == -1

BusyTimes == 0..MaxBusy \cup {Stuck}

StepAddrs == {U32Of(0), U32Of(128)}
StepSizes == {0, 1, pageSize, pageSize + 1}

Unlogged(d) == [d EXCEPT !.cmds = <<>>]

\* the caller is inside the call, in waitUntilReady
Waiting(name, a, d, written) ==
    /\ run' = [pc |-> "wait", name |-> name, args |-> a, d |-> Unlogged(d),
               written |-> written]
    /\ UNCHANGED <<mounted, adapterCfg, op, args, pre, ret, obj, calls, cmds, chip, fsVars>>

\* W25Q128::program is called: it returns at once for size 0, else it sends the first
\* chunk and starts to wait
ProgramCall ==
    /\ op = "idle"
    /\ run = NoRun
    /\ Erased
    /\ \E addr \in StepAddrs, size \in StepSizes :
       \E b \in [1..NPages(size) -> BusyTimes] :
          IF ~(0 < size)
          THEN Returned("program", <<addr, size, 256>>, [Drv(b) EXCEPT !.rc = 0])
               /\ UNCHANGED run
          ELSE Waiting("program", <<addr, size, 256>>,
                       programChunk(Drv(b), addr, Buffer(256, size), size, 0), 0)

\* W25Q128::erase is called: it sends the sector erase and starts to wait
EraseCall ==
    /\ op = "idle"
    /\ run = NoRun
    /\ \E addr \in StepAddrs, b \in [1..1 -> BusyTimes] :
          Waiting("erase", <<addr>>, eraseCommand(Drv(b), addr), 0)

\* One turn of the loop of waitUntilReady: read the status; while the chip is busy,
\* delay and poll again; else go on: the next chunk of program(), or return 0.
Poll ==
    /\ run.pc = "wait"
    /\ \E r \in {Unlogged(readStatus(run.d))} :
          LET addr == run.args[1]
              size == run.args[2]
              written == run.written + ChunkSize(size, run.written)
          IN IF isBusy(r.status)
             THEN /\ run' = [run EXCEPT !.d = r]
                  /\ UNCHANGED <<mounted, adapterCfg, op, args, pre, ret, obj, calls, cmds,
                                 chip, fsVars>>
             ELSE IF run.name = "program" /\ written < size
             THEN Waiting("program", run.args,
                          programChunk(r, U32Add(addr, written), Buffer(256, size), size,
                                       written),
                          written)
             ELSE Returned(run.name, run.args, [r EXCEPT !.rc = 0]) /\ run' = NoRun

\* ExternalFlashFS::begin
xfsBegin(c, formatOnFail) ==
    LET c1 == LfsCall(c, "lfs_mount", NoPath, "", 0)
        f == LfsCall(c1, "lfs_format", NoPath, "", 0)
        m == LfsCall(f, "lfs_mount", NoPath, "", 0)
    IN IF c1.rc # LFS_ERR_OK
       THEN IF formatOnFail
            THEN IF f.rc = LFS_ERR_OK THEN Return(m, m.rc = LFS_ERR_OK) ELSE Return(f, FALSE)
            ELSE Return(c1, FALSE)
       ELSE Return(c1, TRUE)

XfsBegin ==
    /\ op = "idle"
    /\ \E formatOnFail \in BOOLEAN, o \in Oracles(3) :
          Finish("ExternalFlashFS::begin", <<formatOnFail>>,
                 xfsBegin(PathCtx("ExternalFlashFS::begin", o), formatOnFail))
    /\ UNCHANGED adapterCfg

\* The adapter that _extFlashLfs points to, reached by a call ("format") or by the
\* release of the pointer ("release": the adapter is deleted unless there is none)
Reached(how, impl) == [kind |-> "impl", how |-> how, state |-> impl]

\* ExternalFlash::setup on the adapter it has just constructed: begin(), and after a
\* failure format() and begin() again; the result is the new value of _mounted (m is
\* the old one)
setup(c, t, m) ==
    Once(begin(c, t), LAMBDA b :
        IF b.ret THEN Return(b, TRUE)
        ELSE Once(format(b, t), LAMBDA f :
                IF ~f.ret THEN Return(f, m)
                ELSE Once(begin(f, t), LAMBDA b2 : Return(b2, m \/ b2.ret))))

(* Sequences of calls on the working filesystem *)

\* the value of attribute 'c' the library keeps for the path (0: none)
StoredCreation(f, path) == IF Key(path) \in DOMAIN f THEN f[Key(path)].c ELSE 0

\* Operation Op, which makes at most n library calls, run after what c has done
Then(c, Op(_), n) ==
    Once(Working(LAMBDA o : Op([c EXCEPT !.oracle = o, !.calls = <<>>]), n),
         LAMBDA r : [r EXCEPT !.calls = c.calls \o @])

\* FS::open(path, mode): the open mode and access mode of a mode string
sflags(mode) ==
    IF mode = "r" THEN [openMode |-> {}, accessMode |-> {"AM_READ"}]
    ELSE IF mode = "w"
    THEN [openMode |-> {"OM_CREATE", "OM_TRUNCATE"}, accessMode |-> {"AM_WRITE"}]
    ELSE [openMode |-> {"OM_CREATE", "OM_APPEND"}, accessMode |-> {"AM_WRITE"}]

\* FS::open(path, mode): the file object is c.file (NoObj: a null File)
fsOpen(c, path, mode, now) ==
    Once(Then(c, LAMBDA x : open(x, path, sflags(mode).openMode, sflags(mode).accessMode,
                                 now),
              2 + OracleLen(path)),
         LAMBDA r : [r EXCEPT !.file =
                        IF r.ret
                        THEN [FileOf(r.obj) EXCEPT
                                 !.h = FileHandle(r.fs, Key(path), r.obj.flags)]
                        ELSE NoObj])

\* FS::stat(path) on the working filesystem
fsStat(c, path) ==
    Then(c, LAMBDA x : stat(x, path,
                            LibAnswer(c.fs, NoDirHandle, "lfs_stat", Key(path), "", 0).info,
                            StoredCreation(c.fs, path)),
         2)

\* The "efc test" command of ExternalFlash::processCommand: the file is opened with
\* "w", the message written, the file closed, opened again with "r" and read to its
\* end; then its size is taken with stat.  obj: the count write() answered, the bytes
\* read, the size stat reports.
writeReadBack(c, path, msg, now) ==
    Once(fsOpen(c, path, "w", now), LAMBDA w :
        IF ~w.ret THEN Return(w, FALSE)
        ELSE Once(write(w, msg), LAMBDA wrote :
             Once(fsOpen(close(wrote, now), path, "r", now), LAMBDA r :
                IF ~r.ret THEN Return(r, FALSE)
                ELSE Once(fileRead(r, Len(r.file.h.data)), LAMBDA content :
                     Once(fsStat(close(content, now), path), LAMBDA st :
                        [Return(st, TRUE) EXCEPT
                            !.file = NoObj,
                            !.obj = [kind |-> "test", wrote |-> wrote.n,
                                     data |-> content.obj.data,
                                     size |-> IF st.ret THEN st.obj.size ELSE 0]])))))

\* ExternalFlash::copyFile
copyFile(c, srcPath, destPath, now) ==
    Once(fsOpen(c, srcPath, "r", now), LAMBDA s :
        IF ~s.ret THEN [Return(s, FALSE) EXCEPT !.file = NoObj]
        ELSE Once(fsOpen(s, destPath, "w", now), LAMBDA d :
            IF ~d.ret
            THEN [Return(close([d EXCEPT !.file = s.file], now), FALSE) EXCEPT
                     !.file = NoObj]
            ELSE Once(sizeOfFile([d EXCEPT !.file = s.file]), LAMBDA sz :
                 Once(fileRead(sz, sz.n), LAMBDA rd :
                 Once(write([rd EXCEPT !.file = d.file], rd.obj.data), LAMBDA wr :
                 Once(close([wr EXCEPT !.file = rd.file], now), LAMBDA cs :
                    [Return(close([cs EXCEPT !.file = wr.file], now), TRUE) EXCEPT
                        !.file = NoObj,
                        !.obj = [kind |-> "copy", size |-> sz.n, read |-> rd.n,
                                 wrote |-> wr.n]]))))))

\* ExternalFlash::getAccessTime; inf and stored as for stat
getAccessTime(c, path, inf, stored) ==
    Once(stat(c, path, inf, stored), LAMBDA r :
        IF r.ret THEN TimeOf(r, r.obj.atime) ELSE TimeOf(r, 0))

\* ExternalFlash::getModificationTime
getModificationTime(c, path, inf, stored) == getAccessTime(c, path, inf, stored)

\* ExternalFlash::format
ExternalFlash_format(c, t) == format(c, t)

\* ExternalFlash::isMounted
isMounted == ExternalFlash_mounted

\* ExternalFlash::setup: a new adapter (not mounted, no time source) is constructed
\* for the chip and _extFlashLfs is made to point to it; the time source is set when
\* _mounted is true at the end, and the adapter is deleted when it is not
\* (_extFlashLfs keeps pointing to it).  obj tells what the assignment to
\* _extFlashLfs released: the adapter it pointed to before.
Setup ==
    /\ op = "idle"
    /\ ~mounted /\ ~timeCallback /\ ~ExternalFlash_mounted
    /\ \E o \in Oracles(7), t \in Times :
          \E r \in {setup(PathCtx("setup", o), t, ExternalFlash_mounted)} :
             /\ Finish("setup", <<>>, [r EXCEPT !.obj = Reached("release", extFlashLfs)])
             /\ ExternalFlash_mounted' = r.ret
             /\ timeCallback' = r.ret
             /\ extFlashLfs' = IF r.ret THEN "live" ELSE "deleted"
    /\ UNCHANGED <<autoFormat, fsSize>>

\* ExternalFlash::format after a setup() that did not mount: FS::format calls format()
\* of the adapter that setup() deleted.  What that call does is not defined; the
\* model keeps the choice of its result.
DanglingFormat ==
    /\ op = "idle"
    /\ extFlashLfs = "deleted"
    /\ \E result \in BOOLEAN :
          Finish("ExternalFlash::format", <<>>,
                 [Return(PathCtx("ExternalFlash::format", <<>>), result)
                     EXCEPT !.obj = Reached("format", extFlashLfs)])
    /\ UNCHANGED adapterCfg

\* ExternalFlash::~ExternalFlash: end() when _mounted, then the members go and
\* _extFlashLfs releases the adapter it points to.  A new module is constructed after.
ModuleDestroy ==
    /\ op = "idle"
    /\ extFlashLfs # "null"
    /\ Finish("~ExternalFlash", <<>>,
              [(IF ExternalFlash_mounted THEN end(PathCtx("~ExternalFlash", <<>>))
                ELSE PathCtx("~ExternalFlash", <<>>))
                  EXCEPT !.obj = Reached("release", extFlashLfs), !.mounted = FALSE])
    /\ ExternalFlash_mounted' = FALSE
    /\ timeCallback' = FALSE
    /\ extFlashLfs' = "null"
    /\ UNCHANGED <<autoFormat, fsSize>>

\* ExternalFlash::format, on the module that setup() has mounted
ModuleFormat ==
    /\ op = "idle"
    /\ ExternalFlash_mounted
    /\ extFlashLfs = "live"
    /\ \E o \in Oracles(5), t \in Times :
          Finish("ExternalFlash::format", <<>>,
                 ExternalFlash_format(PathCtx("ExternalFlash::format", o), t))
    /\ UNCHANGED adapterCfg

(* The read paths of the stored times.  An attribute is a blob of 8 bytes (what   *)
(* the adapter writes), of 4 bytes (written by an earlier layout) or is not there  *)
(* (size 0); lfs_getattr answers the size of the blob, whatever the buffer.        *)

Blobs == [size : {4, 8}, time : Times] \cup {[size |-> 0, time |-> 0]}

\* the outcome of lfs_getattr on a blob
BlobOutcome(b) == IF b.size = 8 THEN "ok" ELSE IF b.size = 4 THEN "alt" ELSE "err"

\* what the library answers to the reads of a blob
BlobOracle(b) == <<BlobOutcome(b), BlobOutcome(b)>>

TimePaths == {<<>>, Slash, <<"/", "a">>}

\* file objects: an open file, a closed one, the name-only object of a directory
FileReceivers ==
    {[kind |-> k, name |-> <<"/", "a">>, flags |-> {"LFS_O_RDONLY"}, creation |-> 0,
      opened |-> o, timeCallback |-> timeCallback, closes |-> 0] :
        k \in {"file", "nameonly"}, o \in BOOLEAN}

\* iterators: on an entry, and before the first or after the last one
DirReceivers ==
    {[kind |-> "dir", pattern |-> <<>>, dirPath |-> p, valid |-> v, opened |-> TRUE,
      dirent |-> [type |-> "LFS_TYPE_REG", size |-> 0, name |-> <<"a">>],
      h |-> NoDirHandle, fresh |-> "no"] :
        p \in {<<>>, <<"/", "a">>}, v \in BOOLEAN}

StatStored ==
    /\ op = "idle"
    /\ \E path \in TimePaths, inf \in FileInfos, b \in Blobs, found \in {"ok", "err"} :
          Finish("stat", <<path, b>>,
                 stat(PathCtx("stat", <<found>> \o BlobOracle(b)), path, inf, b.time))
    /\ UNCHANGED adapterCfg

GetCreationTime ==
    /\ op = "idle"
    /\ \E b \in Blobs :
          Finish("getCreationTime", <<Slash, b>>,
                 getCreationTime(PathCtx("getCreationTime", BlobOracle(b)), b.time))
    /\ UNCHANGED adapterCfg

FileGetLastWrite ==
    /\ op = "idle"
    /\ \E f \in FileReceivers, b \in Blobs :
          Finish("File::getLastWrite", <<f, b>>,
                 getLastWrite(PathCtx("getLastWrite", BlobOracle(b)), f, b.time))
    /\ UNCHANGED adapterCfg

FileGetCreationTime ==
    /\ op = "idle"
    /\ \E f \in FileReceivers, b \in Blobs :
          Finish("File::getCreationTime", <<f, b>>,
                 fileGetCreationTime(PathCtx("getCreationTime", BlobOracle(b)), f, b.time))
    /\ UNCHANGED adapterCfg

DirFileTime ==
    /\ op = "idle"
    /\ \E d \in DirReceivers, b \in Blobs :
          Finish("fileTime", <<d, b>>,
                 fileTime(PathCtx("fileTime", BlobOracle(b)), d, b.time))
    /\ UNCHANGED adapterCfg

DirFileCreationTime ==
    /\ op = "idle"
    /\ \E d \in DirReceivers, b \in Blobs :
          Finish("fileCreationTime", <<d, b>>,
                 fileCreationTime(PathCtx("fileCreationTime", BlobOracle(b)), d, b.time))
    /\ UNCHANGED adapterCfg

\* ExternalFlash::getModificationTime on the working filesystem
GetModificationTime ==
    /\ op = "idle"
    /\ NoHandles
    /\ \E path \in FsFilePaths :
          Finish("getModificationTime", <<path>>,
                 Working(LAMBDA o :
                            getModificationTime(
                                PathCtx("getModificationTime", o), path,
                                LibAnswer(fs, NoDirHandle, "lfs_stat", Key(path), "", 0).info,
                                StoredCreation(fs, path)),
                         2))
    /\ UNCHANGED adapterCfg

(* Files and their bytes on the working filesystem *)

DataPaths == {<<"/", "a">>, <<"/", "b">>}
Modes == {"r", "w", "a"}
Hello == <<72, 101, 108, 108, 111>>
Bufs == {<<>>, <<72>>, Hello}

\* FS::open(path, mode)
OpenMode ==
    /\ op = "idle"
    /\ NoHandles
    /\ \E path \in DataPaths, mode \in Modes, now \in Times :
          Finish("open", <<path, mode>>, fsOpen(PathCtx("open", <<>>), path, mode, now))
    /\ UNCHANGED adapterCfg

FileWrite ==
    /\ op = "idle"
    /\ file # NoObj
    /\ \E buf \in Bufs, st \in Stale :
          Finish("write", <<buf>>, write(HandleCtx("write", st), buf))
    /\ UNCHANGED adapterCfg

FileRead ==
    /\ op = "idle"
    /\ file # NoObj
    /\ \E n \in {1, Len(Hello)}, st \in Stale :
          Finish("read", <<n>>, fileRead(HandleCtx("read", st), n))
    /\ UNCHANGED adapterCfg

FileFlush ==
    /\ op = "idle"
    /\ file # NoObj
    /\ \E st \in Stale : Finish("flush", <<>>, flush(HandleCtx("flush", st)))
    /\ UNCHANGED adapterCfg

DataStat ==
    /\ op = "idle"
    /\ \E path \in DataPaths :
          Finish("stat", <<path>>, fsStat(PathCtx("stat", <<>>), path))
    /\ UNCHANGED adapterCfg

WriteReadBack ==
    /\ op = "idle"
    /\ NoHandles
    /\ \E path \in DataPaths \cup {Slash}, msg \in Bufs, now \in Times :
          Finish("writeReadBack", <<path, msg>>,
                 writeReadBack(PathCtx("writeReadBack", <<>>), path, msg, now))
    /\ UNCHANGED adapterCfg

CopyFile ==
    /\ op = "idle"
    /\ NoHandles
    /\ \E srcPath \in DataPaths \cup {Slash}, destPath \in DataPaths, now \in Times :
          Finish("copyFile", <<srcPath, destPath>>,
                 copyFile(PathCtx("copyFile", <<>>), srcPath, destPath, now))
    /\ UNCHANGED adapterCfg

(* The file object asked about itself *)

\* the number a call answered, kept for the caller
Counted(c) == [c EXCEPT !.obj = [kind |-> "count", n |-> c.n]]

FileSize ==
    /\ op = "idle"
    /\ file # NoObj
    /\ Finish("size", <<>>, Counted(sizeOfFile(PathCtx("size", <<>>))))
    /\ UNCHANGED adapterCfg

FilePosition ==
    /\ op = "idle"
    /\ file # NoObj
    /\ Finish("position", <<>>, Counted(position(PathCtx("position", <<>>))))
    /\ UNCHANGED adapterCfg

FileIsFile ==
    /\ op = "idle"
    /\ file # NoObj
    /\ Finish("isFile", <<>>, isFile(PathCtx("isFile", <<>>)))
    /\ UNCHANGED adapterCfg

FileIsDirectory ==
    /\ op = "idle"
    /\ file # NoObj
    /\ Finish("isDirectory", <<>>, isDirectory(PathCtx("isDirectory", <<>>)))
    /\ UNCHANGED adapterCfg

(* Directories listed by name *)

ListPaths == {Slash, <<"a">>, <<"/", "a">>, <<"b">>, <<"/", "a", "/", "b">>}

\* FS::openDir on absolute paths and on bare names
ListOpen ==
    /\ op = "idle"
    /\ NoHandles
    /\ \E path \in ListPaths :
          LET inf == LibAnswer(fs, NoDirHandle, "lfs_stat", Key(path), "", 0).info
              c == Working(LAMBDA o : openDir(PathCtx("openDir", o), path, inf), 2)
          IN Finish("openDir", <<path>>,
                    [c EXCEPT !.dir = IF c.ret THEN DirOf(c) ELSE NoObj])
    /\ UNCHANGED adapterCfg

\* Dir::openFile for reading, on the current entry
DirOpenFile ==
    /\ op = "idle"
    /\ dir # NoObj
    /\ file = NoObj
    /\ \E now \in Times :
          \E r \in {Working(LAMBDA o : openFile(PathCtx("openFile", o), {}, {"AM_READ"},
                                                now),
                            2 + OracleLen(tmpName(dir)))} :
             Finish("openFile", <<>>,
                    [r EXCEPT !.file = IF r.ret THEN FileOf(r.obj) ELSE NoObj])
    /\ UNCHANGED adapterCfg

\* Dir::fileCreationTime on the current entry
DirEntryCreationTime ==
    /\ op = "idle"
    /\ dir # NoObj
    /\ Finish("fileCreationTime", <<>>,
              Working(LAMBDA o : fileCreationTime(PathCtx("fileCreationTime", o), dir,
                                                  StoredCreation(fs, tmpName(dir))),
                      2))
    /\ UNCHANGED adapterCfg

(* The position of a file *)

SeekModes == {"SeekSet", "SeekCur", "SeekEnd"}
SeekPositions == {0, 1, 2, Len(Hello) + 1}
TruncateSizes == {0, 1, 2}

FileSeek ==
    /\ op = "idle"
    /\ file # NoObj
    /\ \E pos \in SeekPositions, mode \in SeekModes :
          \E r \in {seek(PathCtx("seek", <<>>), pos, mode)} :
             Finish("seek", <<pos, mode>>, r)
    /\ UNCHANGED adapterCfg

FileTruncate ==
    /\ op = "idle"
    /\ file # NoObj
    /\ \E size \in TruncateSizes :
          Finish("truncate", <<size>>, truncate(PathCtx("truncate", <<>>), size))
    /\ UNCHANGED adapterCfg

\* The caller takes the outcome of a call that has returned.
Done ==
    /\ op # "idle"
    /\ op = "seek" => obj.returns
    /\ op' = "idle"
    /\ args' = <<>>
    /\ pre' = mounted
    /\ ret' = FALSE
    /\ obj' = NoObj
    /\ calls' = <<>>
    /\ cmds' = <<>>
    /\ was' = [fs |-> fs, file |-> file, dir |-> dir]
    /\ UNCHANGED <<mounted, adapterCfg, flashVars, fs, file, dir>>

Init ==
    /\ mounted = FALSE
    /\ autoFormat = TRUE
    /\ timeCallback = FALSE
    /\ fsSize \in {0, FLASH_SIZE_W25Q128}
    /\ ExternalFlash_mounted = FALSE
    /\ extFlashLfs = "null"
    /\ op = "idle"
    /\ args = <<>>
    /\ pre = FALSE
    /\ ret = FALSE
    /\ obj = NoObj
    /\ calls = <<>>
    /\ cmds = <<>>
    /\ chip = [mem |-> Blank, wel |-> FALSE, cs |-> FALSE, busy |-> 0]
    /\ run = NoRun
    /\ fs = Unformatted
    /\ file = NoObj
    /\ dir = NoObj
    /\ was = [fs |-> fs, file |-> file, dir |-> dir]

Next ==
    \/ Begin
    \/ Format
    \/ End
    \/ SetConfig
    \/ SetTimeCallback
    \/ Exists
    \/ Rename
    \/ Info
    \/ Remove
    \/ Rmdir
    \/ Mkdir
    \/ Stat
    \/ Open
    \/ OpenDir
    \/ XfsBegin
    \/ Done

Spec == Init /\ [][Next]_vars

\* The driver on its own
NextFile ==
    \/ FsBegin
    \/ SetTimeCallback
    \/ FsOpen
    \/ FileClose
    \/ FileDestroy
    \/ FsRemove
    \/ GetModificationTime
    \/ Done

NextDir ==
    \/ FsBegin
    \/ FsMkdir
    \/ FsRemove
    \/ FsRmdir
    \/ FsOpen
    \/ FileClose
    \/ FileDestroy
    \/ FsOpenDir
    \/ DirNext
    \/ DirRewind
    \/ DirDestroy
    \/ Done

NextFlash ==
    \/ Program
    \/ LfsProg
    \/ Read
    \/ LfsRead
    \/ TestBlockWriteRead
    \/ Erase
    \/ LfsErase
    \/ LfsSync
    \/ ChipErase
    \/ ReadStatus
    \/ ReadID
    \/ EnableWrite
    \/ DisableWrite
    \/ Done

\* the adapter constructed with the size of the chip
InitFlash == Init /\ fsSize = FLASH_SIZE_W25Q128

\* the module: setup, format and operations on paths
NextModule ==
    \/ Setup
    \/ ModuleFormat
    \/ DanglingFormat
    \/ ModuleDestroy
    \/ Exists
    \/ Mkdir
    \/ Done

SpecModule == InitFlash /\ [][NextModule]_vars

\* the read paths of the stored times
NextTime ==
    \/ FsBegin
    \/ StatStored
    \/ GetCreationTime
    \/ FileGetLastWrite
    \/ FileGetCreationTime
    \/ DirFileTime
    \/ DirFileCreationTime
    \/ Done

SpecTime == InitFlash /\ [][NextTime]_vars

\* files and their bytes
NextData ==
    \/ FsBegin
    \/ OpenMode
    \/ FileWrite
    \/ FileRead
    \/ FileClose
    \/ FileDestroy
    \/ DataStat
    \/ WriteReadBack
    \/ CopyFile
    \/ Done

SpecData == InitFlash /\ [][NextData]_vars

\* the file object: what it is, where it stands, what it holds
NextHandle ==
    \/ FsBegin
    \/ FsMkdir
    \/ OpenMode
    \/ FileWrite
    \/ FileRead
    \/ FileSize
    \/ FilePosition
    \/ FileIsFile
    \/ FileIsDirectory
    \/ FileClose
    \/ FileDestroy
    \/ Done

SpecHandle == InitFlash /\ [][NextHandle]_vars

\* directories opened by name, and the entries they list
NextList ==
    \/ FsBegin
    \/ SetTimeCallback
    \/ FsMkdir
    \/ OpenMode
    \/ FileDestroy
    \/ ListOpen
    \/ DirNext
    \/ DirOpenFile
    \/ DirEntryCreationTime
    \/ DirDestroy
    \/ Done

SpecList == InitFlash /\ [][NextList]_vars

\* file objects that outlive the mount
NextStale ==
    \/ FsBegin
    \/ End
    \/ OpenMode
    \/ FileWrite
    \/ FileRead
    \/ FileFlush
    \/ FileClose
    \/ FileDestroy
    \/ DataStat
    \/ GetCreationTime
    \/ Done

SpecStale == InitFlash /\ [][NextStale]_vars

\* the file object and its position
NextSeek ==
    \/ FsBegin
    \/ WriteReadBack
    \/ OpenMode
    \/ FileSeek
    \/ FileTruncate
    \/ FileDestroy
    \/ Done

SpecSeek == InitFlash /\ [][NextSeek]_vars

SpecFile == InitFlash /\ [][NextFile]_vars

SpecDir == InitFlash /\ [][NextDir]_vars

SpecFlash == InitFlash /\ [][NextFlash]_vars

\* program() and erase() poll by poll; the polling loop keeps running
NextWait ==
    \/ ProgramCall
    \/ EraseCall
    \/ Poll
    \/ Done

SpecWait == InitFlash /\ [][NextWait]_vars /\ WF_vars(Poll)

-----------------------------------------------------------------------------
(* Properties *)

CallIdx(fn) == {i \in 1..Len(calls) : calls[i].fn = fn}

\* C1: begin() on a Mounted adapter returns success, leaves it Mounted and makes no
\* filesystem-library call at all (no mount, unmount or format); the state it leaves
\* is Mounted again, so this holds for every repeated call.
C1_BeginIdempotent ==
    (op = "begin" /\ pre) => (ret /\ mounted /\ calls = <<>>)

C1_Witness == op = "begin" /\ pre /\ ret /\ calls = <<>>

\* C2 (as claimed): begin() reports failure only with the adapter Unmounted and
\* success only with it Mounted.
C2_BeginResultIsMounted ==
    op = "begin" => (ret <=> mounted)

\* format() returned true: lfs_format succeeded and no attribute write failed.
FormatSucceeded(i) ==
    /\ calls[i].rc = LFS_ERR_OK
    /\ \A j \in CallIdx("lfs_setattr") : calls[j].rc = LFS_ERR_OK

BeginMountsAfter(i) ==
    {j \in CallIdx("lfs_mount") : j > i /\ calls[j].by = "begin"}

\* C3 (as claimed): in one begin() call lfs_format is issued at most once, only after
\* a failed mount of that call, and after it lfs_mount is issued exactly once, as the
\* last library call.
C3_ExactlyOneMountAfterFormat ==
    op = "begin" =>
        /\ Cardinality(CallIdx("lfs_format")) <= 1
        /\ \A i \in CallIdx("lfs_format") :
              /\ \E j \in CallIdx("lfs_mount") : j < i /\ calls[j].rc # LFS_ERR_OK
              /\ Cardinality({j \in CallIdx("lfs_mount") : j > i}) = 1
              /\ calls[Len(calls)].fn = "lfs_mount"

\* C3 (amended): in one begin() call lfs_format is issued at most once and only after
\* a failed mount of that call; when format() succeeds begin() retries the mount
\* exactly once, as its last library call whether or not the retry succeeds (the
\* transient mount format() makes itself to write the root timestamps apart); when
\* format() fails begin() attempts no further mount.
C3_OneRetryAfterSuccessfulFormat ==
    op = "begin" =>
        /\ Cardinality(CallIdx("lfs_format")) <= 1
        /\ \A i \in CallIdx("lfs_format") :
              /\ \E j \in CallIdx("lfs_mount") :
                    j < i /\ calls[j].rc # LFS_ERR_OK /\ calls[j].by = "begin"
              /\ Cardinality(BeginMountsAfter(i)) = IF FormatSucceeded(i) THEN 1 ELSE 0
              /\ \A j \in BeginMountsAfter(i) : j = Len(calls)
              /\ Cardinality({j \in CallIdx("lfs_mount") : j > i /\ calls[j].by = "format"}) <= 1

\* A begin() whose format succeeded, with format()'s transient mount, and whose
\* retry failed.
C3_Witness ==
    /\ op = "begin"
    /\ ~ret
    /\ \E i \in CallIdx("lfs_format") :
          /\ FormatSucceeded(i)
          /\ \E j \in CallIdx("lfs_mount") : j > i /\ calls[j].by = "format"
    /\ calls[Len(calls)].fn = "lfs_mount"
    /\ calls[Len(calls)].rc # LFS_ERR_OK

\* C4: with auto-format disabled, a begin() whose mount attempt fails returns failure
\* having made no library call but that one lfs_mount (no format, no attribute
\* write), and leaves the adapter Unmounted; ExternalFlashFS::begin(false) likewise
\* makes no call after its failed lfs_mount.
C4_NoFormatWhenAutoFormatOff ==
    /\ (op = "begin" /\ ~pre /\ ~autoFormat /\ calls # <<>> /\ calls[1].rc # LFS_ERR_OK)
          => (~ret /\ ~mounted /\ Len(calls) = 1 /\ calls[1].fn = "lfs_mount")
    /\ (op = "ExternalFlashFS::begin" /\ ~args[1] /\ calls[1].rc # LFS_ERR_OK)
          => (~ret /\ Len(calls) = 1 /\ calls[1].fn = "lfs_mount")

C4_Witness ==
    op = "begin" /\ ~pre /\ ~autoFormat /\ calls # <<>> /\ calls[1].rc # LFS_ERR_OK /\ ~ret

\* C5 (as claimed): format() called on a Mounted adapter returns true exactly when the
\* adapter is Mounted on return.
C5_FormatMountedResultIsMounted ==
    (op = "format" /\ pre) => (ret <=> mounted)

\* C6 (as claimed): format() called on an Unmounted adapter returns, on every path,
\* with the adapter Unmounted.
C6_FormatUnmountedStaysUnmounted ==
    (op = "format" /\ ~pre) => ~mounted

PathOps == {"open", "openDir", "exists", "rename", "remove", "rmdir", "mkdir", "stat", "info"}

\* C7: on an Unmounted adapter open, openDir, exists, rename, remove, rmdir, mkdir, stat
\* and info fail without any filesystem-library call, return no object, and leave the
\* adapter Unmounted.
C7_UnmountedFailsLocally ==
    (op \in PathOps /\ ~pre) => (~ret /\ calls = <<>> /\ obj = NoObj /\ ~mounted)

C7_Witness ==
    op = "mkdir" /\ ~pre /\ args[1] = <<"/", "a">> /\ ~ret /\ calls = <<>>

\* A slash-delimited segment of the path has LFS_NAME_MAX characters or more.
HasLongSegment(path) ==
    LET B == {0, Len(path) + 1} \cup {i \in 1..Len(path) : path[i] = "/"}
    IN \E a \in B, b \in B :
          /\ a < b
          /\ \A k \in B : ~(a < k /\ k < b)
          /\ b - a - 1 >= LFS_NAME_MAX

Rejected(path) == BadPath(path) \/ HasLongSegment(path)

OnePathOps == {"exists", "remove", "rmdir", "mkdir", "stat"}

\* C8 (as claimed): open, exists, rename, remove, rmdir, mkdir and stat fail without
\* any library call when a path is empty or has a segment of LFS_NAME_MAX characters
\* or more.
C8_AllOpsRejectBadPaths ==
    /\ (op \in OnePathOps \cup {"open"} /\ Rejected(args[1])) => (~ret /\ calls = <<>>)
    /\ (op = "rename" /\ (Rejected(args[1]) \/ Rejected(args[2]))) => (~ret /\ calls = <<>>)

\* C8 (amended): open fails without any library call when the path is empty or has a
\* segment of LFS_NAME_MAX characters or more; exists, rename, remove, rmdir, mkdir and
\* stat fail without any library call when a path is empty, and on a Mounted adapter
\* hand every non-empty path, oversized segments included, to the library.
C8_OpenRejectsOversizedOthersEmpty ==
    /\ (op = "open" /\ Rejected(args[1])) => (~ret /\ calls = <<>>)
    /\ (op \in OnePathOps /\ BadPath(args[1])) => (~ret /\ calls = <<>>)
    /\ (op = "rename" /\ (BadPath(args[1]) \/ BadPath(args[2]))) => (~ret /\ calls = <<>>)
    /\ (op \in OnePathOps /\ pre /\ ~BadPath(args[1])) => calls # <<>>
    /\ (op = "rename" /\ pre /\ ~BadPath(args[1]) /\ ~BadPath(args[2])) => calls # <<>>

\* open on a Mounted adapter with a segment of exactly LFS_NAME_MAX characters
C8_Witness ==
    /\ op = "open"
    /\ pre
    /\ args[1] = <<"/", "a", "/">> \o Rep("x", LFS_NAME_MAX)
    /\ ~ret
    /\ calls = <<>>

PageProgramCmds == SelectSeq(cmds, LAMBDA k : k.cmd = CMD_PAGE_PROGRAM)

\* C9 (as claimed): every page-program command program() issues keeps all its bytes
\* inside one 256-byte page.
C9_NoCommandCrossesPage ==
    op \in {"program", "lfs_prog"} =>
        \A i \in 1..Len(PageProgramCmds) :
            (ChipAddr(PageProgramCmds[i].addr) % pageSize)
                + Len(PageProgramCmds[i].data) <= pageSize

RECURSIVE ConcatData(_)
ConcatData(q) == IF q = <<>> THEN <<>> ELSE Head(q).data \o ConcatData(Tail(q))

RECURSIVE SentBefore(_, _)
SentBefore(q, i) == IF i <= 1 THEN 0 ELSE Len(q[i - 1].data) + SentBefore(q, i - 1)

\* C10: program(addr, buffer, size) issues exactly ceil(size / 256) page-program
\* commands (none for size 0), each with 1..256 data bytes; their data, in order, is
\* exactly the buffer, and each command carries the address bytes of addr plus the
\* number of bytes sent before it (so the chunks are consecutive and do not overlap).
C10_ProgramChunks ==
    op = "program" =>
        LET addr == args[1]
            size == args[2]
            q == PageProgramCmds
        IN /\ Len(q) = (size + pageSize - 1) \div pageSize
           /\ \A i \in 1..Len(q) :
                 /\ Len(q[i].data) >= 1
                 /\ Len(q[i].data) <= pageSize
                 /\ q[i].addr = AddrBytes(U32Add(addr, SentBefore(q, i)))
           /\ ConcatData(q) = Buffer(args[3], size)

\* three chunks from an address that is not page-aligned
C10_Witness ==
    /\ op = "program"
    /\ args[1] = U32Of(128)
    /\ args[2] = 2 * pageSize + 1
    /\ Len(PageProgramCmds) = 3

\* C11 (as claimed): whenever program(block, offset, bytes) was called with a range
\* that lies inside one block, reading the same range back returns exactly the bytes
\* programmed.
C11_ReadBackAfterProgram ==
    /\ (op = "program" /\ args[1].hi = 0
            /\ (args[1].lo % SECTOR_SIZE_W25Q128_4KB) + args[2] <= SECTOR_SIZE_W25Q128_4KB)
        => read(Drv(<<>>), args[1], args[2]).buf = Buffer(args[3], args[2])
    /\ op = "lfs_prog"
        => lfs_read(Drv(<<>>), args[1], args[2], args[3]).buf = Buffer(args[4], args[3])

BlockOfPage(p) == (p * PAGE_SIZE_W25Q128_256B) \div SECTOR_SIZE_W25Q128_4KB

AllErased(data) == \A i \in 1..Len(data) : data[i] = ERASED

\* C12: after erase(block) every read inside that block returns ERASED (0xFF) for every
\* byte (no page of the block is left programmed), and the erase has changed no byte
\* of any other block.
C12_EraseOneBlock ==
    op \in {"lfs_erase", "erase"} =>
        LET block == IF op = "lfs_erase" THEN args[1]
                     ELSE args[1].lo \div SECTOR_SIZE_W25Q128_4KB
        IN /\ \A off \in ReadOffsets \cup {1}, size \in {1, PAGE_SIZE_W25Q128_256B} :
                AllErased(lfs_read(Drv(<<>>), block, off, size).buf)
           /\ \A p \in DOMAIN chip.mem : BlockOfPage(p) # block
           /\ \A p \in DOMAIN chip.mem \cup DOMAIN obj.memBefore :
                BlockOfPage(p) # block => PageOf(chip.mem, p) = PageOf(obj.memBefore, p)

\* block 0 erased after a program that ran from the end of block 0 into block 1: what
\* was programmed in block 1 is still there
C12_Witness ==
    /\ op = "lfs_erase"
    /\ args = <<0>>
    /\ DOMAIN chip.mem = {SECTOR_SIZE_W25Q128_4KB \div PAGE_SIZE_W25Q128_256B}
    /\ \E p \in DOMAIN obj.memBefore : BlockOfPage(p) = 0
    /\ \E i \in 1..Len(cmds) : cmds[i].cmd = CMD_SECTOR_ERASE /\ cmds[i].addr = <<0, 0, 0>>

BlockDeviceOps == {"read", "program", "erase", "lfs_read", "lfs_prog", "lfs_erase", "lfs_sync"}

\* C13: read, program, erase and sync, and the callbacks bound to them, return 0 from
\* every call, whatever the chip answered to the status reads and the data reads.
C13_CallbacksReturnZero ==
    op \in BlockDeviceOps => obj.rc = 0

\* an erase that polled a busy chip and a read that was answered with erased bytes only
C13_Witness ==
    \/ /\ op = "lfs_erase"
       /\ obj.rc = 0
       /\ \E i \in 1..Len(cmds) : cmds[i].cmd = CMD_READ_STATUS_REG /\ i < Len(cmds)
                                     /\ cmds[i + 1].cmd = CMD_READ_STATUS_REG
    \/ /\ op = "lfs_read"
       /\ obj.rc = 0
       /\ chip.mem # Blank
       /\ AllErased(obj.data)

DriverOps ==
    {"read", "program", "erase", "chipErase", "readStatus", "readID", "enableWrite",
     "disableWrite", "lfs_read", "lfs_prog", "lfs_erase"}

\* C15: no byte is transferred while the chip is deselected, select is never called
\* while the chip is selected, and every public driver operation returns with the
\* chip deselected.
C15_SelectBracketsTransfers ==
    op \in DriverOps => (~obj.bare /\ ~obj.nested /\ ~chip.cs)

\* a program of three chunks: write-enable, page-program and status reads, each in
\* its own select/deselect
C15_Witness ==
    /\ op = "program"
    /\ Len(PageProgramCmds) = 3
    /\ Len(cmds) >= 9
    /\ ~obj.bare /\ ~obj.nested /\ ~chip.cs

\* the chip clears its busy bit after the command under way and after every command
\* still to come
ChipClears ==
    /\ run.d.busy # Stuck
    /\ \A i \in 1..Len(run.d.busyFor) : run.d.busyFor[i] # Stuck

\* C14: program() and erase() return from the wait only when the status just read
\* had the busy bit clear; a call that waits on a chip that clears its busy bit after
\* every command returns; a call that waits on a chip that never clears it never
\* returns.
C14_ReturnsOnlyWhenReady ==
    /\ [][(run.pc = "wait" /\ run'.pc = "none") => ChipStatus(run.d) % 2 = 0]_vars
    /\ (run.pc = "wait" /\ ChipClears) ~> (run.pc = "none")
    /\ [](run.pc = "wait" /\ run.d.busy = Stuck => [](run.pc = "wait"))

\* a program of two chunks waiting on a busy chip that will clear, and one waiting on
\* a chip that never clears
C14_Witness ==
    /\ run.pc = "wait"
    /\ run.name = "program"
    /\ run.written = pageSize
    /\ run.d.busy > 0

-----------------------------------------------------------------------------
(* The file object *)

\* the attribute writes of the operation that has just returned, in order
Setattrs == SelectSeq(calls, LAMBDA x : x.fn = "lfs_setattr")

Stamp(attr, val) == [attr |-> attr, val |-> val]

Stamps == [i \in 1..Len(Setattrs) |-> Stamp(Setattrs[i].attr, Setattrs[i].val)]

\* what close() has to write for file object f at time now: 'c' when a creation time
\* was captured at open, then 't'
CloseStamps(f, now) ==
    (IF f.creation # 0 THEN <<Stamp("c", f.creation)>> ELSE <<>>) \o <<Stamp("t", now)>>

ForWriting(f) == "LFS_O_WRONLY" \in f.flags

\* the first close() of a file object that holds a library handle
FirstClose == op = "close" /\ was.file.kind = "file" /\ was.file.opened

\* C16 as stated: close() writes 't', and 'c' exactly when a creation time was
\* captured, when the handle was opened for writing, and nothing when it was opened
\* read-only.
C16_StampsIffForWriting ==
    FirstClose =>
        Stamps = IF ForWriting(was.file) THEN CloseStamps(was.file, args[1]) ELSE <<>>

\* C16: close() writes attributes only when the handle was opened for writing, holds
\* a library handle and the file object has a time source; in that case it writes 'c'
\* exactly when a creation time was captured at open, then 't'; in every other case,
\* a handle opened read-only included, it writes no attribute.
C16_StampsIffForWritingWithTimeSource ==
    op = "close" =>
        Stamps = IF FirstClose /\ ForWriting(was.file) /\ was.file.timeCallback
                 THEN CloseStamps(was.file, args[1])
                 ELSE <<>>

\* a handle that created its file is closed: 'c' and 't' are written and stored
C16_Witness ==
    /\ FirstClose
    /\ ForWriting(was.file)
    /\ was.file.creation # 0
    /\ Len(Stamps) = 2
    /\ fs[Key(was.file.name)].c = was.file.creation
    /\ fs[Key(was.file.name)].t = args[1]

\* a close() or a destruction of a file object that was closed before
ClosedAgain == op \in {"close", "~File"} /\ was.file.kind = "file" /\ ~was.file.opened

\* C17: the library handle of a file object is closed at most once while the object
\* lives and exactly once when it has been destroyed, whatever close() calls came
\* before; a close() or a destruction after the first close() makes no library call,
\* so writes no attribute, and changes neither the filesystem nor the object.
C17_ClosedExactlyOnce ==
    /\ file.kind = "file" => file.closes = IF file.opened THEN 0 ELSE 1
    /\ (op = "~File" /\ obj.kind = "file") => obj.closes = 1
    /\ ClosedAgain => (calls = <<>> /\ fs = was.fs /\ (op = "close" => file = was.file))

\* a second close() of a handle whose first close() wrote the attributes
C17_Witness ==
    /\ op = "close"
    /\ ClosedAgain
    /\ ForWriting(was.file)
    /\ was.file.timeCallback
    /\ fs[Key(was.file.name)].t # 0
    /\ calls = <<>>

\* the files that had a creation time when the operation was called
Dated == {k \in DOMAIN was.fs : IsReg(was.fs, k) /\ was.fs[k].c # 0}

-----------------------------------------------------------------------------
(* The tree *)

\* filesystem f with directory a, and every ancestor above it, removed as far as
\* each is empty
RECURSIVE Pruned(_, _)
Pruned(f, a) ==
    IF a = Root \/ Children(f, a) # {} THEN f ELSE Pruned(Drop(f, a), Parent(a))

\* C19: a successful remove(path) leaves the filesystem without the node of path and
\* without those ancestors that, bottom-up, have become empty; the first ancestor that
\* still has a child stays, with all its ancestors, and nothing else changes.
C19_PrunesEmptyAncestors ==
    (op = "remove" /\ ret) =>
        fs = Pruned(Drop(was.fs, Key(args[1])), Parent(Key(args[1])))

\* remove("/a/b/c") has removed /a/b/c and the emptied /a/b, and has left /a, which
\* holds /a/d
C19_Witness ==
    /\ op = "remove"
    /\ ret
    /\ Key(args[1]) = <<<<"a">>, <<"b">>, <<"c">>>>
    /\ <<<<"a">>, <<"b">>>> \in DOMAIN was.fs
    /\ <<<<"a">>, <<"b">>>> \notin DOMAIN fs
    /\ <<<<"a">>>> \in DOMAIN fs
    /\ <<<<"a">>, <<"d">>>> \in DOMAIN fs

\* the entries of the directory that iterator d reads which are not "." or ".." and
\* which its pattern lets through, in the order the library lists them
Matching(d) ==
    SelectSeq(SubSeq(Listing(fs, d.h.key), 3, Len(Listing(fs, d.h.key))),
              LAMBDA e : d.pattern = <<>> \/ strncmpEq(e.name, d.pattern))

\* C20: next() never answers with the entry "." or ".."; the first next() after
\* openDir() and after every rewind() answers with the first genuine entry of the
\* directory that matches the pattern, and answers false when there is none.
C20_SkipsDotEntries ==
    op = "next" =>
        /\ ret => dir.dirent.name \notin {Dot, DotDot}
        /\ was.dir.fresh # "no" =>
              IF Matching(was.dir) = <<>> THEN ~ret /\ ~dir.valid
              ELSE ret /\ dir.valid /\ dir.dirent = Matching(was.dir)[1]

\* /a, listed up to its second entry and rewound, lists its first entry again
C20_Witness ==
    /\ op = "next"
    /\ was.dir.fresh = "rewound"
    /\ was.dir.dirent.name = <<"d">>
    /\ ret
    /\ dir.dirent.name = <<"b">>

\* entry e passes the pattern of iterator d
Passes(d, e) == d.pattern = <<>> \/ strncmpEq(e.name, d.pattern)

Removals == SelectSeq(calls, LAMBDA x : x.fn = "lfs_remove")

\* C30: remove(path) and rmdir(path) answer true exactly when the library removed
\* the named entry, whatever became of the removals of its ancestors; when the named
\* entry was not removed, no removal of an ancestor is asked for and the filesystem
\* is as it was.
C30_AnswersForNamedEntry ==
    op \in {"remove", "rmdir"} =>
        LET named == Len(Removals) >= 1 /\ Removals[1].path = args[1]
                     /\ Removals[1].rc = LFS_ERR_OK
        IN /\ ret <=> named
           /\ ret => (Key(args[1]) \in DOMAIN was.fs /\ Key(args[1]) \notin DOMAIN fs)
           /\ ~ret => (Len(Removals) <= 1 /\ fs = was.fs)

\* /a/d removed while /a still holds b: the removal of /a fails, the answer is true
C30_Witness ==
    /\ op \in {"remove", "rmdir"}
    /\ ret
    /\ Len(Removals) >= 2
    /\ Removals[2].rc # LFS_ERR_OK

\* the first and the last address a program or read command of the log touches
FirstAddr(x) == ChipAddr(x.addr)
LastAddr(x) == ChipAddr(x.addr) + Len(x.data) - 1

\* C27: Test_BlockWriteRead(startBlock) programs and reads its 256 bytes inside block
\* startBlock: every address of its page-program and read commands lies in that
\* block, and no page of another block is changed.
C27_TestStaysInItsBlock ==
    op = "Test_BlockWriteRead" =>
        /\ \A i \in 1..Len(cmds) :
              cmds[i].cmd \in {CMD_PAGE_PROGRAM, CMD_READ_DATA} =>
                 /\ FirstAddr(cmds[i]) \div SECTOR_SIZE_W25Q128_4KB = args[1]
                 /\ LastAddr(cmds[i]) \div SECTOR_SIZE_W25Q128_4KB = args[1]
        /\ \A p \in DOMAIN chip.mem \cup DOMAIN obj.memBefore :
              BlockOfPage(p) # args[1] => PageOf(chip.mem, p) = PageOf(obj.memBefore, p)

ChangingCmds == {CMD_PAGE_PROGRAM, CMD_SECTOR_ERASE}

\* the status read at position j of the log ends the wait that follows command i:
\* nothing but status reads since the command, and the chip answered ready
EndsWait(i, j) ==
    /\ \A k \in (i + 1)..j : cmds[k].cmd = CMD_READ_STATUS_REG
    /\ ~cmds[j].busy

\* C28: every page-program and every sector-erase command comes right after a
\* write-enable command sent in a chip-select bracket of its own, and is followed by
\* status reads, and nothing else, up to one that the chip answers ready.
C28_WriteEnableBeforeWaitAfter ==
    op \in DriverOps \cup {"Test_BlockWriteRead"} =>
        /\ ~obj.nested
        /\ \A i \in 1..Len(cmds) :
              cmds[i].cmd \in ChangingCmds =>
                 /\ i > 1
                 /\ cmds[i - 1].cmd = CMD_WRITE_ENABLE
                 /\ cmds[i - 1].addr = <<>> /\ cmds[i - 1].data = <<>>
                 /\ \E j \in (i + 1)..Len(cmds) : EndsWait(i, j)

\* a program of two chunks, the chip busy after each: write-enable, page program,
\* a status read answered busy and one answered ready, twice
C28_Witness ==
    /\ op = "program"
    /\ Len(cmds) = 8
    /\ cmds[2].cmd = CMD_PAGE_PROGRAM /\ cmds[3].busy /\ ~cmds[4].busy
    /\ cmds[5].cmd = CMD_WRITE_ENABLE
    /\ cmds[6].cmd = CMD_PAGE_PROGRAM /\ cmds[7].busy /\ ~cmds[8].busy

\* no command but a status read was sent to a busy chip, and the chip is ready when
\* the call returns
SentWhenReady ==
    op \in DriverOps \cup {"Test_BlockWriteRead", "lfs_sync"} =>
        /\ \A i \in 1..Len(cmds) : cmds[i].cmd # CMD_READ_STATUS_REG => ~cmds[i].busy
        /\ chip.busy = 0

\* sync() sends nothing and leaves the chip as it was
SyncIsNoOp == op' = "lfs_sync" => (cmds' = <<>> /\ chip' = chip /\ obj'.rc = 0)

\* C29: over any sequence of driver calls the chip is ready whenever a command other
\* than a status read is sent to it and whenever a call returns; sync() sends no
\* command and leaves the chip unchanged.
C29_ReadyAtEveryCommand == []SentWhenReady /\ [][SyncIsNoOp]_vars

\* sync() called on a chip that was programmed before
C29_Witness ==
    /\ op = "lfs_sync"
    /\ chip.mem # Blank
    /\ chip.busy = 0
    /\ cmds = <<>>

\* C25: after every setup(), format() and operation on a path, isMounted() is true
\* exactly when the filesystem is mounted.
C25_IsMountedTracksMount ==
    op # "idle" => (isMounted <=> mounted)

TimeReads ==
    {"stat", "getCreationTime", "File::getLastWrite", "File::getCreationTime", "fileTime",
     "fileCreationTime"}

\* the time the read path answered
TimeRead == IF op = "stat" THEN obj.ctime ELSE obj.time

\* the read path asked the library for the attribute and the library found a blob
ReadBlob ==
    \E i \in 1..Len(calls) : calls[i].fn = "lfs_getattr" /\ calls[i].rc = LFS_ERR_OK

\* C23: every read path of a stored time (stat, the file object's getCreationTime
\* and getLastWrite, the iterator's fileTime and fileCreationTime, the filesystem's
\* getCreationTime) answers the stored time when the attribute is a blob of 8 bytes
\* and when it is a blob of 4 bytes.
C23_ReadsBothBlobSizes ==
    (op \in TimeReads /\ ret /\ ReadBlob) => TimeRead = args[2].time

\* C24: getModificationTime(path) on an existing file or directory answers the time
\* stored in its attribute 't' (the last write).
C24_ModificationTimeIsLastWrite ==
    (op = "getModificationTime" /\ mounted /\ Key(args[1]) \in DOMAIN fs)
        => obj.time = fs[Key(args[1])].t

\* C22: on a mounted filesystem, writing the bytes B to a file opened for writing
\* (created or emptied by the open), closing it, opening it again for reading and
\* reading to the end answers exactly B, and stat reports the size Len(B) ("Hello":
\* 5 bytes written, 5 read, size 5).
C22_ReadsBackWhatWasWritten ==
    (op = "writeReadBack" /\ ret /\ obj.wrote = Len(args[2]))
        => /\ obj.data = args[2]
           /\ obj.size = Len(args[2])
           /\ (Key(args[1]) # Root => fs[Key(args[1])].d = args[2])

\* "Hello" written over a file that held other bytes
C22_Witness ==
    /\ op = "writeReadBack"
    /\ ret
    /\ args[2] = Hello
    /\ obj = [kind |-> "test", wrote |-> 5, data |-> Hello, size |-> 5]
    /\ Key(args[1]) \in DOMAIN was.fs
    /\ was.fs[Key(args[1])].d = <<72>>

\* C26: copyFile answers true only if the destination then holds exactly the bytes
\* the source held (all of them read, all of them written).
C26_TrueOnlyIfCopied ==
    (op = "copyFile" /\ ret)
        => /\ Key(args[2]) \in DOMAIN fs
           /\ Key(args[1]) \in DOMAIN was.fs
           /\ fs[Key(args[2])].d = was.fs[Key(args[1])].d
           /\ obj.read = obj.size
           /\ obj.wrote = obj.size

\* C31: mkdir(path) returns true exactly when lfs_mkdir succeeded; after a successful
\* creation with a time source one attribute 'c' is written on the directory before
\* mkdir returns and its failure does not change the result; after a failed creation,
\* or without a time source, no attribute is written.
C31_MkdirResultIsCreation ==
    op = "mkdir"
        => /\ ret = (\E i \in CallIdx("lfs_mkdir") : calls[i].rc = LFS_ERR_OK)
           /\ Len(calls) <= 2
           /\ \A i \in 1..Len(calls) :
                 /\ calls[i].fn = (IF i = 1 THEN "lfs_mkdir" ELSE "lfs_setattr")
                 /\ calls[i].path = args[1]
                 /\ i = 2 => calls[i].attr = "c"
           /\ (Len(calls) = 2) = (ret /\ timeCallback)

\* the directory is created and the write of its creation time fails
C31_Witness ==
    /\ op = "mkdir"
    /\ ret
    /\ timeCallback
    /\ Len(calls) = 2
    /\ calls[2].fn = "lfs_setattr"
    /\ calls[2].rc # LFS_ERR_OK

\* the final lfs_file_open of open(), the one with the flags asked for
FinalOpens == {i \in CallIdx("lfs_file_open") : calls[i].attr = "flags"}

\* C32: when the final lfs_file_open answers LFS_ERR_ISDIR, open hands out a name-only
\* file object; any other non-zero answer yields no file object.  On a name-only
\* object isDirectory() is true, isFile() is false, read and write return 0, size and
\* position are 0, and none of them calls the filesystem library.
C32_NameOnlyObjectForDirectory ==
    /\ op = "open"
          => \A i \in FinalOpens :
                /\ calls[i].rc = LFS_ERR_ISDIR
                      => (ret /\ file # NoObj /\ file.kind = "nameonly" /\ file.opened)
                /\ calls[i].rc \notin {LFS_ERR_OK, LFS_ERR_ISDIR}
                      => (~ret /\ file = NoObj /\ obj = NoObj)
    /\ (/\ op \in {"isDirectory", "isFile", "read", "write", "size", "position"}
        /\ file.kind = "nameonly")
          => /\ calls = <<>>
             /\ ret = (op = "isDirectory")
             /\ op \in {"size", "position"} => obj.n = 0
             /\ op = "read" => obj.data = <<>>
             /\ fs = was.fs

\* "Hello" written to the object that open("/a", "w") gave for the directory /a
C32_Witness ==
    /\ op = "write"
    /\ args[1] = Hello
    /\ file.kind = "nameonly"
    /\ "LFS_O_WRONLY" \in file.flags
    /\ IsDir(fs, Key(file.name))
    /\ Key(file.name) # Root
    /\ ~ret

\* what stands before each separator of a path, shortest first
RECURSIVE PrefixesFrom(_, _)
PrefixesFrom(path, from) ==
    LET ptr == strchrFrom(path, "/", from)
    IN IF ptr = 0 THEN <<>>
       ELSE <<SubSeq(path, 1, ptr - 1)>> \o PrefixesFrom(path, ptr + 1)

MkdirCalls == SelectSeq(calls, LAMBDA x : x.fn = "lfs_mkdir")

\* a later call of the same operation removes the path again
RemovedAfter(i, path) ==
    \E j \in (i + 1)..Len(calls) : calls[j].fn = "lfs_remove" /\ calls[j].path = path

\* C33: an open that asks for creation calls lfs_mkdir on what stands before each
\* separator of the path, shortest first, and never on the whole path; an open that
\* does not ask for creation calls no lfs_mkdir; an open that fails leaves behind no
\* directory that it has made.
C33_NoDirectoryLeftByFailedOpen ==
    op = "open"
        => /\ "OM_CREATE" \notin args[2] => MkdirCalls = <<>>
           /\ ("OM_CREATE" \in args[2] /\ calls # <<>>)
                 => [i \in 1..Len(MkdirCalls) |-> MkdirCalls[i].path]
                       = PrefixesFrom(args[1], 1)
           /\ ~ret => \A i \in CallIdx("lfs_mkdir") :
                         calls[i].rc = LFS_ERR_OK => RemovedAfter(i, calls[i].path)

\* the entry iterator d stands on
Current(d) == Append(d.h.key, d.dirent.name)

\* C34: the path a directory iterator keeps names the directory that was opened, so
\* the path built for the current entry (directory path, separator, name) names that
\* entry: openFile opens it and the attribute lookups read its attributes.
C34_StoredPathNamesOpenedDirectory ==
    /\ (op = "openDir" /\ ret) => Key(dir.dirPath) = dir.h.key
    /\ (dir # NoObj /\ dir.valid) => Key(tmpName(dir)) = Current(dir)
    /\ (op = "openFile" /\ dir.valid /\ IsReg(fs, Current(dir)))
          => (ret /\ Key(file.name) = Current(dir))
    /\ (op = "fileCreationTime" /\ dir.valid /\ Current(dir) \in DOMAIN fs)
          => obj.time = fs[Current(dir)].c

\* The library along a log of calls, from the i-th on: m is whether it is mounted, ok
\* whether so far no mount came on a mounted library, no unmount on an unmounted one
\* and no format on a mounted one.  A mount that fails leaves the library unmounted.
RECURSIVE LibraryAfter(_, _, _)
LibraryAfter(st, log, i) ==
    IF i > Len(log) THEN st
    ELSE LET call == log[i]
         IN IF call.fn = "lfs_mount"
            THEN LibraryAfter([m |-> call.rc = LFS_ERR_OK, ok |-> st.ok /\ ~st.m], log, i + 1)
            ELSE IF call.fn = "lfs_unmount"
            THEN LibraryAfter([m |-> FALSE, ok |-> st.ok /\ st.m], log, i + 1)
            ELSE IF call.fn = "lfs_format"
            THEN LibraryAfter([m |-> st.m, ok |-> st.ok /\ ~st.m], log, i + 1)
            ELSE LibraryAfter(st, log, i + 1)

\* C35: every operation of the adapter (ExternalFlashFS, which has a library context
\* of its own, is not one) that starts with the mounted flag equal to the state of
\* the library ends with them equal; along its calls the library is never mounted while
\* mounted, unmounted while unmounted or formatted while mounted; end() leaves the
\* adapter Unmounted and calls nothing on an Unmounted adapter.
C35_FlagIsLibraryState ==
    /\ op # "ExternalFlashFS::begin"
          => LibraryAfter([m |-> pre, ok |-> TRUE], calls, 1) = [m |-> mounted, ok |-> TRUE]
    /\ op = "end" => (~mounted /\ (~pre => calls = <<>>))

\* format() on a Mounted adapter with a time source: unmount, format, mount, two
\* attributes, unmount, mount
C35_Witness ==
    /\ op = "format"
    /\ pre
    /\ mounted
    /\ Cardinality(CallIdx("lfs_unmount")) = 2
    /\ Cardinality(CallIdx("lfs_mount")) = 2

\* the operations that mount and format
MountOps == {"begin", "format", "setup"}

\* C36: an operation other than mount and format that starts on an Unmounted adapter
\* makes no call of the filesystem library: not the filesystem's getCreationTime(),
\* and not read, write, flush or close on a file object opened while the adapter was
\* Mounted.
C36_NoLibraryCallWhileUnmounted ==
    (op \notin MountOps /\ ~pre) => calls = <<>>

\* C37: during one ExternalFlash::setup() the library formats at most once, and only
\* after a mount has failed; a mount that fails after the format is followed by no
\* further format.
C37_SetupFormatsAtMostOnce ==
    op = "setup"
        => /\ Cardinality(CallIdx("lfs_format")) <= 1
           /\ \A i \in CallIdx("lfs_format") :
                 /\ \E j \in 1..(i - 1) :
                       calls[j].fn = "lfs_mount" /\ calls[j].rc # LFS_ERR_OK
                 /\ \A j \in (i + 1)..Len(calls) :
                       (calls[j].fn = "lfs_mount" /\ calls[j].rc # LFS_ERR_OK)
                          => \A k \in (j + 1)..Len(calls) : calls[k].fn # "lfs_format"

\* C38: the adapter that setup() deleted is never reached again through _extFlashLfs:
\* no later ExternalFlash operation calls it, and no assignment to the handle and no
\* destructor releases (and so deletes) it a second time.
C38_DeletedAdapterNeverReached ==
    obj.kind = "impl" => obj.state # "deleted"

\* C39: seek() on an open file always returns; when it returns false the position is
\* where it was before the call, and when it returns true the position is not beyond
\* the end of the file.
C39_FailedSeekKeepsPosition ==
    (op = "seek" /\ was.file.opened /\ was.file.kind = "file")
        => /\ obj.returns
           /\ ~ret => file.h.pos = was.file.h.pos
           /\ ret => file.h.pos <= Len(file.h.data)


\* the commands of the last operation that carry an address
AddressedCmds == SelectSeq(cmds, LAMBDA k : k.cmd \in Addressed)

\* C40: for a block below the block count (capacity / block size = 4096) and an
\* offset and length inside the block, every command lfs_read, lfs_prog (each chunk,
\* at the address advanced by the bytes sent before it) and lfs_erase send carries the
\* absolute address block * blockSize + offset: the address and the bytes that follow
\* it stay below 2^24, so the three address bytes hold it untruncated, and the block
\* and the offset are recovered from the chip address (distinct pairs give distinct
\* addresses).
C40_AddressFitsThreeBytes ==
    op \in {"lfs_read", "lfs_prog", "lfs_erase"} =>
        LET block == args[1]
            off == IF op = "lfs_erase" THEN 0 ELSE args[2]
            q == AddressedCmds
        IN /\ block < FLASH_SIZE_W25Q128 \div SECTOR_SIZE_W25Q128_4KB
           /\ Len(q) >= 1
           /\ \A i \in 1..Len(q) :
                 LET a == block * SECTOR_SIZE_W25Q128_4KB + off + SentBefore(q, i)
                 IN /\ a + Len(q[i].data) <= Pow2(24)
                    /\ U32Of(a).hi = 0
                    /\ ChipAddr(q[i].addr) = a
                    /\ ChipAddr(q[i].addr) \div SECTOR_SIZE_W25Q128_4KB = block
                    /\ ChipAddr(q[i].addr) % SECTOR_SIZE_W25Q128_4KB = off + SentBefore(q, i)

\* two pages programmed at the end of the last block: the second chunk goes to the
\* last page of the chip
C40_Witness ==
    /\ op = "lfs_prog"
    /\ args[1] = FLASH_SIZE_W25Q128 \div SECTOR_SIZE_W25Q128_4KB - 1
    /\ args[2] + args[3] = SECTOR_SIZE_W25Q128_4KB
    /\ Len(AddressedCmds) = 2
    /\ ChipAddr(AddressedCmds[2].addr) = Pow2(24) - PAGE_SIZE_W25Q128_256B

====
